---- MODULE Spec2Model ----
(***************************************************************************)
(* A model of Violet, a 2D tile platformer: the tile grid query surface,   *)
(* the player's physics tick, damage and the game-state machine, and the   *)
(* height-field synthesis of the world generator.                          *)
(*                                                                         *)
(* float64 quantities (positions, velocities) are fixed-point integers in  *)
(* units of 1/FP pixel.  Every constant of the code that takes part in an  *)
(* addition (gravity, accelerations, jump strength, knockback) is an exact *)
(* multiple of 1/FP; a multiplication by a friction factor is truncated    *)
(* toward zero to 1/FP.                                                    *)
(***************************************************************************)
EXTENDS Integers, Sequences, FiniteSets, TLC

VARIABLES
    tm,        \* Tilemap: [Cols, Rows, Grid], Grid[y][x] a tile code
    g,         \* Game: the player's body, timers, action flags, health, game state
    in,        \* the keys sampled by the last tick (ebiten.IsKeyPressed / inpututil)
    op,        \* the operation the last step performed
    arg,       \* the arguments of a query or damage call made by the last step
    ret,       \* the value returned by the last query
    idx,       \* the grid index <<y, x>> read by the last GetTile, or <<>> when none was read
    mid,       \* the player's body in the last tick after the Y move, before Y resolution
    ticks,     \* number of steps taken (bounded by MaxTicks)
    pre,       \* the Game as it was when the last step began
    calls,     \* the hitbox overlap tests made, or the functions entered, by the last step
    prev,      \* the step before the last: its op, its arg and the Game it began with
    gen        \* the world generator: preset, noise sample, height field, progress

vars == <<tm, g, in, op, arg, ret, idx, mid, ticks, pre, calls, prev, gen>>

-----------------------------------------------------------------------------
(* Bounds of the model *)

\* width and height, in tiles, of the small worlds the physics runs in
GridCols == 4
GridRows == 7
\* steps explored from each initial state
MaxTicks == 3

-----------------------------------------------------------------------------
(* Numbers *)

\* fixed-point denominator: a float64 value v is the integer v * FP
FP == 100

Abs(a) == IF a < 0 THEN -a ELSE a

\* Go's integer division and int(float) conversion truncate toward zero
TruncDiv(a, b) == IF a >= 0 THEN a \div b ELSE -((-a) \div b)

Min(a, b) == IF a < b THEN a ELSE b
Max(a, b) == IF a > b THEN a ELSE b

-----------------------------------------------------------------------------
(* Tile IDs (level_gen.go) *)

ID_Grass == 92
ID_Dirt == 193
ID_Stone == 578
ID_Log == 220
ID_Leaves == 296
ID_OreGold == 132
ID_OreIron == 134
ID_OreCoal == 127
ID_Lava == 162
ID_Sand == 582
ID_Water == 142
ID_Chest == 600
ID_Mushroom == 191
ID_Crystal == 200
ID_Flower == 291
ID_MossyStone == 31
ID_DarkStone == 5
ID_SkyGrass == 558

\* every tile code the generator writes, and air
TileCodes == {0, ID_Grass, ID_Dirt, ID_Stone, ID_Log, ID_Leaves, ID_OreGold,
              ID_OreIron, ID_OreCoal, ID_Lava, ID_Sand, ID_Water, ID_Chest,
              ID_Mushroom, ID_Crystal, ID_Flower, ID_MossyStone, ID_DarkStone,
              ID_SkyGrass}

TileSize == 16

-----------------------------------------------------------------------------
(* Tilemap query surface (tilemap.go) *)

\* Tilemap.IsSolid with the lava test left out
IsSolid_NoLava(tileID) ==
    IF tileID = 0 THEN FALSE
    ELSE IF tileID = 220 \/ tileID = 296 \/ tileID = ID_Chest \/ tileID = ID_Water
         THEN FALSE
         ELSE TRUE

IsSolid(tileID) ==
    IF tileID = 0 THEN FALSE
    ELSE IF tileID = 220 \/ tileID = 296 \/ tileID = ID_Chest
            \/ tileID = ID_Water \/ tileID = ID_Lava
         THEN FALSE
         ELSE TRUE

\* the bounds test of GetTile: TRUE when (x, y) is outside the grid
OutOfGrid_OffByOne(t, x, y) == x < 0 \/ x > t.Cols \/ y < 0 \/ y >= t.Rows

OutOfGrid(t, x, y) == x < 0 \/ x >= t.Cols \/ y < 0 \/ y >= t.Rows

\* the index GetTile reads: none when the bounds test returns early
GetTileIndex(t, x, y) == IF OutOfGrid(t, x, y) THEN <<>> ELSE <<y, x>>

\* a Go slice index outside the slice panics
IndexPanics(t, i) ==
    i # <<>> /\ ~(i[1] \in 0..(t.Rows - 1) /\ i[2] \in 0..(t.Cols - 1))

GetTile(t, x, y) ==
    LET i == GetTileIndex(t, x, y) IN
    IF i = <<>> THEN 0
    ELSE IF IndexPanics(t, i) THEN -1   \* no value: the read panicked
    ELSE t.Grid[i[1]][i[2]]

SolidAt(t, x, y) == IsSolid(GetTile(t, x, y))

-----------------------------------------------------------------------------
(* Player physics (player.go).  Lengths and speeds are in 1/FP pixel. *)

Gravity == 50             \* 0.5
JumpStrength == -1500     \* -15.0
MaxFallSpeed == 1400      \* 14.0
PlayerHitboxW == 20
PlayerHitboxH == 64
GroundAccel == 80         \* 0.8
AirAccel == 50            \* 0.5
GroundFriction == 85      \* 0.85, in hundredths
AirFriction == 95         \* 0.95, in hundredths
MaxSpeedX == 600          \* 6.0
JumpCutMultiplier == 100  \* 1.0, in hundredths
FallGravityMult == 140    \* 1.4, in hundredths
CoyoteFrames == 6
JumpBufferFrames == 8

\* AnimationState
StateIdle == "Idle"
StateWalk == "Walk"
StateAttack == "Attack"
StateProtection == "Protection"
StateDialogue == "Dialogue"
StateJump == "Jump"
StateFall == "Fall"

\* int(v / float64(TileSize)) for a length v
TileOf(v) == TruncDiv(v, TileSize * FP)

resetAnim(s) == [s EXCEPT !.currentFrame = 0, !.frameCounter = 0]

\* dlg: whether the dialogue system is active
handleActionStates(s, k, dlg) ==
    LET a == IF s.isAttacking /\ s.currentFrame >= s.totalFrames - 1
             THEN resetAnim([s EXCEPT !.isAttacking = FALSE]) ELSE s
        b == IF a.isProtecting /\ ~k.shiftHeld
             THEN resetAnim([a EXCEPT !.isProtecting = FALSE]) ELSE a
        c == IF b.isDialogue /\ ~dlg
             THEN resetAnim([b EXCEPT !.isDialogue = FALSE]) ELSE b
    IN c

\* the per-state sprite sheet length and frame delay of updateAnimationState
AnimFrames(st) ==
    CASE st = StateAttack -> <<6, 5>>
      [] st = StateProtection -> <<4, 8>>
      [] st = StateDialogue -> <<4, 8>>
      [] st = StateWalk -> <<7, 4>>
      [] st = StateJump -> <<6, 8>>
      [] st = StateFall -> <<3, 8>>
      [] OTHER -> <<4, 10>>

updateAnimationState(s, isMoving) ==
    LET nextState ==
            IF s.isAttacking THEN StateAttack
            ELSE IF s.isProtecting THEN StateProtection
            ELSE IF s.isDialogue THEN StateDialogue
            ELSE IF s.vy < -50 THEN StateJump
            ELSE IF ~s.isGrounded /\ s.vy > 50 THEN StateFall
            ELSE IF isMoving THEN StateWalk
            ELSE StateIdle
        a == IF nextState # s.currentState
             THEN resetAnim([s EXCEPT !.currentState = nextState]) ELSE s
        fr == AnimFrames(a.currentState)
        clampFrame == a.currentState \in {StateJump, StateFall} /\ a.currentFrame >= fr[1]
        b == [a EXCEPT !.totalFrames = fr[1], !.frameDelay = fr[2],
                       !.currentFrame = IF clampFrame THEN fr[1] - 1 ELSE @]
        cnt == b.frameCounter + 1
    IN  IF cnt >= b.frameDelay
        THEN LET f == b.currentFrame + 1 IN
             [b EXCEPT !.frameCounter = 0,
                       !.currentFrame =
                           IF f >= b.totalFrames
                           THEN (IF b.currentState \in {StateWalk, StateIdle}
                                 THEN 0 ELSE b.totalFrames - 1)
                           ELSE f]
        ELSE [b EXCEPT !.frameCounter = cnt]

\* the rows handleCollisionsX samples in the leading-edge column
SampleRowsX(top, bottom) == {top, bottom, TruncDiv(top + bottom, 2)}

handleCollisionsX(s, t, vx) ==
    LET left == TileOf(s.x - (PlayerHitboxW \div 2) * FP)
        right == TileOf(s.x + (PlayerHitboxW \div 2) * FP)
        top == TileOf(s.y - PlayerHitboxH * FP)
        bottom == TileOf(s.y - 1 * FP)
        rows == SampleRowsX(top, bottom)
    IN  IF vx < 0
        THEN IF \E r \in rows : SolidAt(t, left, r)
             THEN [s EXCEPT !.x = (left + 1) * TileSize * FP + (PlayerHitboxW \div 2) * FP,
                            !.vx = 0]
             ELSE s
        ELSE IF vx > 0
        THEN IF \E r \in rows : SolidAt(t, right, r)
             THEN [s EXCEPT !.x = right * TileSize * FP - (PlayerHitboxW \div 2) * FP,
                            !.vx = 0]
             ELSE s
        ELSE s

\* the columns of the player's feet and head, one pixel inside the hitbox
FootLeft(s) == TileOf(s.x - (PlayerHitboxW * FP) \div 2 + 1 * FP)
FootRight(s) == TileOf(s.x + (PlayerHitboxW * FP) \div 2 - 1 * FP)

\* the floor branch of handleCollisionsY with the snap one row too low
LandOn_Below(s, row) ==
    [s EXCEPT !.y = (row + 1) * TileSize * FP, !.vy = 0, !.isGrounded = TRUE]

\* landing: snap the feet to the top of tile row `row`
LandOn(s, row) ==
    [s EXCEPT !.y = row * TileSize * FP, !.vy = 0, !.isGrounded = TRUE]

handleCollisionsY(s0, t) ==
    LET s == [s0 EXCEPT !.isGrounded = FALSE]
        left == FootLeft(s)
        right == FootRight(s)
    IN  IF s.vy < 0
        THEN LET top == TileOf(s.y - PlayerHitboxH * FP) IN
             IF SolidAt(t, left, top) \/ SolidAt(t, right, top)
             THEN [s EXCEPT !.y = (top + 1) * TileSize * FP + PlayerHitboxH * FP, !.vy = 0]
             ELSE s
        ELSE LET bottom == TileOf(s.y)
                 checkBelow == TileOf(s.y + 2 * FP)
             IN  IF SolidAt(t, left, bottom) \/ SolidAt(t, right, bottom)
                 THEN LandOn(s, bottom)
                 ELSE IF (SolidAt(t, left, checkBelow) \/ SolidAt(t, right, checkBelow))
                         /\ s.y > checkBelow * TileSize * FP - 2 * FP
                 THEN LandOn(s, checkBelow)
                 ELSE s

\* coyote and jump-buffer timers at the head of the tick
tickTimers(s) ==
    [s EXCEPT !.coyoteTimer = IF s.isGrounded THEN CoyoteFrames
                              ELSE IF @ > 0 THEN @ - 1 ELSE @,
              !.jumpBufferTimer = IF @ > 0 THEN @ - 1 ELSE @]

\* the input handling with a jump that leaves the coyote timer running
readInput_KeepCoyote(s, k) ==
    LET a == [s EXCEPT !.direction = IF k.right THEN 1 ELSE IF k.left THEN -1 ELSE @,
                       !.jumpBufferTimer = IF k.jump THEN JumpBufferFrames ELSE @]
        b == IF a.jumpBufferTimer > 0 /\ a.coyoteTimer > 0
             THEN [a EXCEPT !.vy = JumpStrength, !.isGrounded = FALSE,
                            !.jumpBufferTimer = 0]
             ELSE a
        c == IF k.jumpRel /\ b.vy < 0
             THEN [b EXCEPT !.vy = TruncDiv(@ * JumpCutMultiplier, 100)] ELSE b
        d == IF k.enter
             THEN resetAnim([c EXCEPT !.isAttacking = TRUE, !.attackSoundPlayed = FALSE])
             ELSE c
        e == IF k.shift THEN resetAnim([d EXCEPT !.isProtecting = TRUE]) ELSE d
        f == IF k.e THEN resetAnim([e EXCEPT !.isDialogue = TRUE]) ELSE e
    IN f

\* input handling while no action lock is active: direction, jump, actions
readInput(s, k) ==
    LET a == [s EXCEPT !.direction = IF k.right THEN 1 ELSE IF k.left THEN -1 ELSE @,
                       !.jumpBufferTimer = IF k.jump THEN JumpBufferFrames ELSE @]
        b == IF a.jumpBufferTimer > 0 /\ a.coyoteTimer > 0
             THEN [a EXCEPT !.vy = JumpStrength, !.isGrounded = FALSE,
                            !.coyoteTimer = 0, !.jumpBufferTimer = 0]
             ELSE a
        c == IF k.jumpRel /\ b.vy < 0
             THEN [b EXCEPT !.vy = TruncDiv(@ * JumpCutMultiplier, 100)] ELSE b
        d == IF k.enter
             THEN resetAnim([c EXCEPT !.isAttacking = TRUE, !.attackSoundPlayed = FALSE])
             ELSE c
        e == IF k.shift THEN resetAnim([d EXCEPT !.isProtecting = TRUE]) ELSE d
        f == IF k.e THEN resetAnim([e EXCEPT !.isDialogue = TRUE]) ELSE e
    IN f

\* horizontal acceleration, clamp and friction
accelerate(s, inputX) ==
    LET accel == IF s.isGrounded THEN GroundAccel ELSE AirAccel
        friction == IF s.isGrounded THEN GroundFriction ELSE AirFriction
    IN  IF inputX # 0
        THEN LET v == s.vx + inputX * accel IN
             [s EXCEPT !.vx = IF v > MaxSpeedX THEN MaxSpeedX
                              ELSE IF v < -MaxSpeedX THEN -MaxSpeedX ELSE v]
        ELSE LET v == TruncDiv(s.vx * friction, 100) IN
             [s EXCEPT !.vx = IF v > -(FP \div 10) /\ v < FP \div 10 THEN 0 ELSE v]

\* gravity, fall-speed clamp and the vertical move
applyGravity(s) ==
    LET gravMult == IF s.vy > 0 THEN FallGravityMult ELSE 100
        v == s.vy + (Gravity * gravMult) \div 100
        w == IF v > MaxFallSpeed THEN MaxFallSpeed ELSE v
    IN  [s EXCEPT !.vy = w, !.y = @ + w]

worldBounds(s, t) ==
    LET mapW == t.Cols * TileSize * FP
        mapH == t.Rows * TileSize * FP
        half == (PlayerHitboxW \div 2) * FP
        a == IF s.x < half THEN [s EXCEPT !.x = half] ELSE s
        b == IF a.x > mapW - half THEN [a EXCEPT !.x = mapW - half] ELSE a
    IN  IF b.y > mapH
        THEN [b EXCEPT !.y = mapH, !.vy = 0, !.isGrounded = TRUE]
        ELSE b

\* the state after the X move and X resolution of a tick
afterMoveX(s, k, t, dlg) ==
    LET a == tickTimers(handleActionStates(s, k, dlg))
        free == ~a.isAttacking /\ ~a.isProtecting /\ ~a.isDialogue
        inputX == IF ~free THEN 0 ELSE IF k.right THEN 1 ELSE IF k.left THEN -1 ELSE 0
        b == IF free THEN readInput(a, k) ELSE a
        c == accelerate(b, inputX)
        d == [c EXCEPT !.x = @ + c.vx]
    IN  handleCollisionsX(d, t, d.vx)

\* the state after gravity and the Y move, before Y resolution
afterMoveY(s, k, t, dlg) == applyGravity(afterMoveX(s, k, t, dlg))

\* Game.updatePlayer with the dialogue system inactive or absent
updatePlayer(s, k, t, dlg) ==
    LET a == worldBounds(handleCollisionsY(afterMoveY(s, k, t, dlg), t), t)
    IN  updateAnimationState(a, a.vx # 0)

-----------------------------------------------------------------------------
(* Small worlds for the queries and the physics *)

\* a stone floor in the bottom row, air above
FloorGrid == [y \in 0..(GridRows - 1) |->
                 [x \in 0..(GridCols - 1) |-> IF y = GridRows - 1 THEN ID_Stone ELSE 0]]

\* the floor plus one tile of code `id` at column c, row r
BlockGrid(c, r, id) == [FloorGrid EXCEPT ![r][c] = id]

SmallWorld(grid) == [Cols |-> GridCols, Rows |-> GridRows, Grid |-> grid]

\* worlds of the physics: the floor, alone or with one stone tile above it
PhysWorlds ==
    {SmallWorld(FloorGrid)} \cup
    {SmallWorld(BlockGrid(c, r, ID_Stone)) : c \in 0..(GridCols - 1), r \in 0..(GridRows - 2)}

\* worlds of the queries: the floor with one tile of any code above it
QueryWorlds ==
    {SmallWorld(BlockGrid(c, r, id)) :
        c \in {0, GridCols - 1}, r \in {0, GridRows - 2}, id \in {ID_Chest, ID_Lava, ID_Dirt}}

\* the 20x64 hitbox of the player overlaps tile (c, r)
HitboxOverlapsTile(s, c, r) ==
    /\ s.x - (PlayerHitboxW \div 2) * FP < (c + 1) * TileSize * FP
    /\ s.x + (PlayerHitboxW \div 2) * FP > c * TileSize * FP
    /\ s.y - PlayerHitboxH * FP < (r + 1) * TileSize * FP
    /\ s.y > r * TileSize * FP

\* the hitbox overlaps a solid tile of the grid
InsideSolid(s, t) ==
    \E r \in 0..(t.Rows - 1) : \E c \in 0..(t.Cols - 1) :
        IsSolid(t.Grid[r][c]) /\ HitboxOverlapsTile(s, c, r)

\* NewGame's player fields (assets.go), placed at (x, y)
NewPlayer(x, y) ==
    [x |-> x, y |-> y, vx |-> 0, vy |-> 0, direction |-> 1, isGrounded |-> FALSE,
     isAttacking |-> FALSE, isProtecting |-> FALSE, isDialogue |-> FALSE,
     attackSoundPlayed |-> FALSE, coyoteTimer |-> 0, jumpBufferTimer |-> 0,
     currentState |-> StateIdle, currentFrame |-> 0, frameCounter |-> 0,
     totalFrames |-> 6, frameDelay |-> 10]

\* the generator at rest: the specifications of the running game do not generate
NoGen == [stage |-> "none"]

\* no step before the last
NoPrev == [op |-> "none", arg |-> <<>>, pre |-> <<>>]

\* the keys of one tick.  left, right: an arrow key or A/D is down; jump, jumpRel:
\* Space was just pressed, just released; enter, shift, e, esc, up, down, f1, f2, m:
\* the key was just pressed (up: ArrowUp or W, down: ArrowDown or S); shiftHeld:
\* ShiftLeft is down; held: Space, Enter or the left mouse button is down
NoKeys == [left |-> FALSE, right |-> FALSE, jump |-> FALSE, jumpRel |-> FALSE,
           enter |-> FALSE, shift |-> FALSE, shiftHeld |-> FALSE, e |-> FALSE,
           esc |-> FALSE, up |-> FALSE, down |-> FALSE, f1 |-> FALSE, f2 |-> FALSE,
           m |-> FALSE, held |-> FALSE]

\* the keys a physics tick samples: a direction and the jump key
PhysKeys ==
    {[NoKeys EXCEPT !.left = (d = -1), !.right = (d = 1), !.jump = j] :
        d \in {-1, 0, 1}, j \in BOOLEAN}

-----------------------------------------------------------------------------
(* Specification of the query surface: GetTile and IsSolid on small worlds *)

InitQuery ==
    /\ tm \in QueryWorlds
    /\ g = NewPlayer(0, 0)
    /\ in = NoKeys
    /\ op = "init" /\ arg = <<>> /\ ret = 0 /\ idx = <<>>
    /\ mid = g
    /\ ticks = 0
    /\ pre = g /\ calls = <<>> /\ prev = NoPrev /\ gen = NoGen

DoGetTile ==
    \E x \in -2..(GridCols + 1), y \in -2..(GridRows + 1) :
        /\ op' = "GetTile"
        /\ arg' = <<x, y>>
        /\ idx' = GetTileIndex(tm, x, y)
        /\ ret' = GetTile(tm, x, y)
        /\ UNCHANGED <<tm, g, in, mid, ticks, pre, calls, prev, gen>>

DoIsSolid ==
    \E id \in TileCodes \cup {1, 599, 601} :
        /\ op' = "IsSolid"
        /\ arg' = <<id>>
        /\ idx' = <<>>
        /\ ret' = IsSolid(id)
        /\ UNCHANGED <<tm, g, in, mid, ticks, pre, calls, prev, gen>>

NextQuery == DoGetTile \/ DoIsSolid

SpecQuery == InitQuery /\ [][NextQuery]_vars

-----------------------------------------------------------------------------
(* Specification of the player's physics: updatePlayer ticks on small worlds *)

\* the player stands on the floor, or hangs a little above it, clear of every solid tile
InitPhys ==
    /\ tm \in PhysWorlds
    /\ \E c \in 0..(GridCols - 1), dy \in {0, 30} :
          /\ g = [NewPlayer(c * TileSize * FP + (PlayerHitboxW \div 2) * FP,
                            (GridRows - 1) * TileSize * FP - dy)
                    EXCEPT !.isGrounded = (dy = 0)]
          /\ g.x + (PlayerHitboxW \div 2) * FP <= GridCols * TileSize * FP
    /\ ~InsideSolid(g, tm)
    /\ in = NoKeys
    /\ op = "init" /\ arg = <<>> /\ ret = 0 /\ idx = <<>>
    /\ mid = g
    /\ ticks = 0
    /\ pre = g /\ calls = <<>> /\ prev = NoPrev /\ gen = NoGen

PlayerTick ==
    /\ ticks < MaxTicks
    /\ \E k \in PhysKeys :
          /\ in' = k
          /\ g' = updatePlayer(g, k, tm, FALSE)
          /\ mid' = afterMoveY(g, k, tm, FALSE)
    /\ op' = "updatePlayer"
    /\ ticks' = ticks + 1
    /\ pre' = g
    /\ UNCHANGED <<tm, arg, ret, idx, calls, prev, gen>>

NextPhys == PlayerTick

SpecPhys == InitPhys /\ [][NextPhys]_vars


-----------------------------------------------------------------------------
(* Monsters, hitboxes and damage *)

ScreenWidth == 1280
ScreenHeight == 720
MonsterBodyHitboxPaddingX == 48
MonsterBodyHitboxPaddingY == 80

SlimeGreen == 0
SlimeBlue == 1
SlimeRed == 2

MStateIdle == "MStateIdle"
MStateJump == "MStateJump"

\* gravity of a monster, per tick
MonsterGravity == 25
\* ticks a monster, and the player, cannot be hurt after a hit
MonsterInvincibleTicks == 30
PlayerInvincibleTicks == 60
\* damage and knockback speed of the player's sword
AttackDamage == 10
AttackKnockback == 500
\* knockback speed a monster's touch gives the player
TouchKnockback == 800

\* <<health, damage, speedX, jumpY>> of a slime variant
SlimeStats(variant) ==
    CASE variant = SlimeBlue -> <<15, 8, 350, -700>>
      [] variant = SlimeRed -> <<40, 15, 150, -500>>
      [] OTHER -> <<20, 10, 200, -600>>

\* id stands for the identity of the *Monster pointer
NewSlime(id, x, y, variant) ==
    LET st == SlimeStats(variant) IN
    [id |-> id, State |-> MStateIdle, X |-> x, Y |-> y, VX |-> 0, VY |-> 0,
     Health |-> st[1], MaxHealth |-> st[1], Damage |-> st[2],
     Speed |-> st[3], JumpStrength |-> st[4],
     CurrentSheet |-> "idle", FrameWidth |-> 128, FrameHeight |-> 128,
     TotalFrames |-> 8, CurrentFrame |-> 0, FrameDelay |-> 6, FrameCounter |-> 0,
     FacingRight |-> TRUE, JumpTimer |-> 0, InvincibleTimer |-> 0, KnockbackVX |-> 0]

\* int(v) of a float64 v
IntOf(v) == TruncDiv(v, FP)

\* math.Sqrt(dx*dx + dy*dy) < r for lengths dx, dy and an integer r (pixels);
\* the squares are split in whole pixels and a remainder to stay in 32 bits
DistLess(dx, dy, r) ==
    LET a == Abs(dx) \div FP
        ra == Abs(dx) % FP
        b == Abs(dy) \div FP
        rb == Abs(dy) % FP
        low == 2 * FP * (a * ra + b * rb) + ra * ra + rb * rb
    IN  /\ a < r /\ b < r
        /\ a * a + b * b + low \div (FP * FP) < r * r

\* image.Rect: a rectangle with ordered corners
Rect(x1, y1, x2, y2) ==
    [MinX |-> Min(x1, x2), MinY |-> Min(y1, y2), MaxX |-> Max(x1, x2), MaxY |-> Max(y1, y2)]

RectEmpty(r) == r.MinX >= r.MaxX \/ r.MinY >= r.MaxY

\* image.Rectangle.Overlaps
Overlaps(r, s) ==
    /\ ~RectEmpty(r) /\ ~RectEmpty(s)
    /\ r.MinX < s.MaxX /\ s.MinX < r.MaxX
    /\ r.MinY < s.MaxY /\ s.MinY < r.MaxY

getMonsterBodyHitbox(m) ==
    LET x1 == IntOf(m.X) + MonsterBodyHitboxPaddingX
        y1 == IntOf(m.Y) + MonsterBodyHitboxPaddingY
        x2 == IntOf(m.X) + m.FrameWidth - MonsterBodyHitboxPaddingX
        y2 == IntOf(m.Y) + m.FrameHeight
    IN  Rect(IF x1 > x2 THEN x2 ELSE x1, IF y1 > y2 THEN y2 ELSE y1, x2, y2)

getPlayerAttackHitbox(s) ==
    IF ~s.isAttacking \/ s.currentFrame # 2
    THEN Rect(0, 0, 0, 0)
    ELSE LET x1 == IF s.direction > 0 THEN IntOf(s.x) ELSE IntOf(s.x) - 40
             x2 == IF s.direction > 0 THEN IntOf(s.x) + 40 ELSE IntOf(s.x)
         IN  Rect(x1, IntOf(s.y) - 60, x2, IntOf(s.y))

getPlayerBodyHitbox(s) ==
    LET w == IF s.isProtecting THEN PlayerHitboxW \div 2 ELSE PlayerHitboxW
    IN  Rect(IntOf(s.x) - w \div 2, IntOf(s.y) - PlayerHitboxH, IntOf(s.x) + w \div 2, IntOf(s.y))

\* Monster.TakeDamage without its invincibility gate
TakeDamage_NoGate(m, amount, knockbackX) ==
    [m EXCEPT !.Health = @ - amount, !.InvincibleTimer = MonsterInvincibleTicks,
              !.KnockbackVX = knockbackX, !.VY = -4 * FP]

TakeDamage(m, amount, knockbackX) ==
    IF m.InvincibleTimer > 0
    THEN m
    ELSE [m EXCEPT !.Health = @ - amount, !.InvincibleTimer = MonsterInvincibleTicks,
                   !.KnockbackVX = knockbackX, !.VY = -4 * FP]

PlayerTakeDamage(s, amount, knockbackX) ==
    IF s.PlayerInvincibleTimer > 0
    THEN s
    ELSE LET amt == IF s.isProtecting THEN amount \div 5 ELSE amount
             kb == IF s.isProtecting THEN TruncDiv(knockbackX, 2) ELSE knockbackX
             h == s.PlayerHealth - amt
         IN  [s EXCEPT !.PlayerHealth = IF h < 0 THEN 0 ELSE h,
                       !.PlayerInvincibleTimer = PlayerInvincibleTicks,
                       !.vx = kb, !.vy = -5 * FP]

\* the tile columns and rows of a monster's body box
MonsterLeft(m) == TileOf(m.X + MonsterBodyHitboxPaddingX * FP)
MonsterRight(m) == TileOf(m.X + m.FrameWidth * FP - MonsterBodyHitboxPaddingX * FP)
MonsterTop(m) == TileOf(m.Y + MonsterBodyHitboxPaddingY * FP)
MonsterBottom(m) == TileOf(m.Y + m.FrameHeight * FP - 1 * FP)

monsterCollisionsX(m, t) ==
    LET left == MonsterLeft(m)
        right == MonsterRight(m)
        top == MonsterTop(m)
        bottom == MonsterBottom(m)
    IN  IF m.VX < 0
        THEN IF SolidAt(t, left, top) \/ SolidAt(t, left, bottom)
             THEN [m EXCEPT !.X = (left + 1) * TileSize * FP - MonsterBodyHitboxPaddingX * FP,
                            !.VX = 0]
             ELSE m
        ELSE IF m.VX > 0
        THEN IF SolidAt(t, right, top) \/ SolidAt(t, right, bottom)
             THEN [m EXCEPT !.X = right * TileSize * FP - m.FrameWidth * FP
                                     + MonsterBodyHitboxPaddingX * FP,
                            !.VX = 0]
             ELSE m
        ELSE m

\* a monster put on the top of tile row `row`
monsterLand(m, row) ==
    [m EXCEPT !.Y = row * TileSize * FP - m.FrameHeight * FP, !.VY = 0,
              !.State = IF m.State = MStateJump THEN MStateIdle ELSE @,
              !.CurrentSheet = IF m.State = MStateJump THEN "idle" ELSE @,
              !.TotalFrames = IF m.State = MStateJump THEN 8 ELSE @]

monsterCollisionsY(m, t) ==
    LET left == MonsterLeft(m)
        right == MonsterRight(m)
        top == MonsterTop(m)
        bottom == MonsterBottom(m)
        bottomFeet == TileOf(m.Y + m.FrameHeight * FP)
    IN  IF m.VY < 0
        THEN IF SolidAt(t, left, top) \/ SolidAt(t, right, top)
             THEN [m EXCEPT !.Y = (top + 1) * TileSize * FP - MonsterBodyHitboxPaddingY * FP,
                            !.VY = 0]
             ELSE m
        ELSE IF m.VY > 0
        THEN IF SolidAt(t, left, bottom) \/ SolidAt(t, right, bottom)
             THEN monsterLand(m, bottom)
             ELSE IF SolidAt(t, left, bottomFeet) \/ SolidAt(t, right, bottomFeet)
             THEN monsterLand(m, bottomFeet)
             ELSE m
        ELSE m

\* the knockback branch without the cut to zero below 0.5
monsterKnockback_NoCutoff(m) ==
    [m EXCEPT !.VX = m.KnockbackVX, !.KnockbackVX = TruncDiv(@ * 9, 10)]

\* the knockback branch of Monster.Update
monsterKnockback(m) ==
    LET k == TruncDiv(m.KnockbackVX * 9, 10) IN
    [m EXCEPT !.VX = m.KnockbackVX, !.KnockbackVX = IF Abs(k) < FP \div 2 THEN 0 ELSE k]

\* the AI branch with the cooldown test dropped
monsterAI_NoCooldown(m, s) ==
    LET distX == (s.x + (s.frameWidth * FP) \div 2) - (m.X + (m.FrameWidth * FP) \div 2)
        distY == (s.y + (s.frameHeight * FP) \div 2) - (m.Y + (m.FrameHeight * FP) \div 2)
    IN  IF m.State # MStateIdle
        THEN m
        ELSE IF DistLess(distX, distY, 500)
        THEN [m EXCEPT !.JumpTimer = 0, !.State = MStateJump, !.VY = m.JumpStrength,
                       !.CurrentSheet = "jump", !.TotalFrames = 8, !.CurrentFrame = 0,
                       !.VX = IF distX > 0 THEN m.Speed ELSE -m.Speed,
                       !.FacingRight = distX > 0]
        ELSE [m EXCEPT !.VX = 0, !.JumpTimer = @ + 1]

\* the AI branch of Monster.Update: an idle monster hops toward a near player
monsterAI(m, s) ==
    LET distX == (s.x + (s.frameWidth * FP) \div 2) - (m.X + (m.FrameWidth * FP) \div 2)
        distY == (s.y + (s.frameHeight * FP) \div 2) - (m.Y + (m.FrameHeight * FP) \div 2)
    IN  IF m.State # MStateIdle
        THEN m
        ELSE IF m.JumpTimer + 1 > 60 /\ DistLess(distX, distY, 500)
        THEN [m EXCEPT !.JumpTimer = 0, !.State = MStateJump, !.VY = m.JumpStrength,
                       !.CurrentSheet = "jump", !.TotalFrames = 8, !.CurrentFrame = 0,
                       !.VX = IF distX > 0 THEN m.Speed ELSE -m.Speed,
                       !.FacingRight = distX > 0]
        ELSE [m EXCEPT !.VX = 0, !.JumpTimer = @ + 1]

monsterAnimate(m) ==
    IF m.FrameCounter + 1 >= m.FrameDelay
    THEN [m EXCEPT !.FrameCounter = 0,
                   !.CurrentFrame = IF @ + 1 >= m.TotalFrames THEN 0 ELSE @ + 1]
    ELSE [m EXCEPT !.FrameCounter = @ + 1]

\* Monster.Update with the early return for a dead monster removed
MonsterUpdate_Live(m, s, t) ==
    LET isNearCamera == Abs(m.X - s.cameraX - (ScreenWidth \div 2) * FP) < 1500 * FP
        a == [m EXCEPT !.InvincibleTimer = IF @ > 0 THEN @ - 1 ELSE @]
        b == IF a.KnockbackVX # 0 THEN monsterKnockback(a)
             ELSE IF isNearCamera THEN monsterAI(a, s) ELSE a
        c == [b EXCEPT !.VY = @ + MonsterGravity]
        d == [c EXCEPT !.X = @ + c.VX]
        e == IF isNearCamera THEN monsterCollisionsX(d, t) ELSE d
        f == [e EXCEPT !.Y = @ + e.VY]
        h == monsterCollisionsY(f, t)
    IN  IF isNearCamera THEN monsterAnimate(h) ELSE h

\* Monster.Update: m is the monster, s the Game, t the tilemap
MonsterUpdate(m, s, t) ==
    IF m.Health <= 0 THEN m ELSE MonsterUpdate_Live(m, s, t)

-----------------------------------------------------------------------------
(* Combat: Game.updateMonstersAndCombat *)

IsAlive(m) == m.Health > 0

\* the monsters of a slice that are alive, in order
FilterAlive(ms) == SelectSeq(ms, IsAlive)

\* the monster-attack guard with the health test dropped
MonsterMayAttack_Always(m) == TRUE

\* the guard of the monster-attack overlap test
MonsterMayAttack(m) == m.Health > 0

\* an overlap test against monster m, as recorded in `calls`
OverlapTest(kind, m) == [kind |-> kind, id |-> m.id, health |-> m.Health]

\* F(v), with the value v computed once and shared by its uses in F
Once(F(_), v) == CHOOSE out \in {F(x) : x \in {v}} : TRUE

\* one pass of the loop body over g.monsters, for monster i; r.g is the Game and
\* r.tests the hitbox overlap tests made so far, in order
combatStep(r, t, i) ==
    LET attacking == r.g.isAttacking /\ r.g.currentFrame = 2
        s1 == IF attacking THEN [r.g EXCEPT !.attackSoundPlayed = TRUE] ELSE r.g
        t1(m1) == IF attacking THEN Append(r.tests, OverlapTest("attack", m1)) ELSE r.tests
        hit(m1) == attacking /\ Overlaps(getPlayerAttackHitbox(s1), getMonsterBodyHitbox(m1))
        \* the monster attack, on the monster m2 as the player's attack left it
        MonsterAttack(m1, m2) ==
            LET s2 == IF hit(m1) /\ m2.Health <= 0 THEN [s1 EXCEPT !.killCount = @ + 1] ELSE s1
                bodyTest == MonsterMayAttack(m2)
                touch == bodyTest
                         /\ Overlaps(getPlayerBodyHitbox(s2), getMonsterBodyHitbox(m2))
                s3 == IF touch
                      THEN PlayerTakeDamage(s2, m2.Damage,
                               IF m2.X > s2.x THEN -TouchKnockback ELSE TouchKnockback)
                      ELSE s2
            IN  [g |-> [s3 EXCEPT !.monsters[i] = m2],
                 tests |-> IF bodyTest THEN Append(t1(m1), OverlapTest("body", m2))
                           ELSE t1(m1)]
        \* the player's attack, on the monster m1 as Monster.Update left it
        PlayerAttack(m1) ==
            LET AfterHit(m2) == MonsterAttack(m1, m2) IN
            Once(AfterHit,
                 IF hit(m1) THEN TakeDamage(m1, AttackDamage, AttackKnockback * s1.direction)
                 ELSE m1)
    IN  Once(PlayerAttack, MonsterUpdate(r.g.monsters[i], r.g, t))

\* a stretch of code that takes the read lock of soundMutex and releases it:
\* its two calls
Section(site) == << <<"RLock", site>>, <<"RUnlock", site>> >>

\* Monster.Update plays the slime sound when the hop starts within 300 of the player
SlimeSounds(m, s) ==
    LET distX == (s.x + (s.frameWidth * FP) \div 2) - (m.X + (m.FrameWidth * FP) \div 2)
        distY == (s.y + (s.frameHeight * FP) \div 2) - (m.Y + (m.FrameHeight * FP) \div 2)
    IN  /\ m.Health > 0 /\ m.KnockbackVX = 0
        /\ Abs(m.X - s.cameraX - (ScreenWidth \div 2) * FP) < 1500 * FP
        /\ m.State = MStateIdle
        /\ m.JumpTimer + 1 > 60
        /\ DistLess(distX, distY, 300)

\* the calls on soundMutex in the loop body for monster i: the slime sound of
\* Monster.Update, then the attack sound if the hit frame has not played it yet
combatSections(s, i) ==
    (IF SlimeSounds(s.monsters[i], s) THEN Section("Monster.Update") ELSE <<>>)
    \o (IF s.isAttacking /\ s.currentFrame = 2 /\ ~s.attackSoundPlayed
        THEN Section("updateMonstersAndCombat") ELSE <<>>)

\* the Game after updateMonstersAndCombat, the overlap tests it made and its
\* calls on soundMutex
combatResult(s, t) ==
    LET s0 == [s EXCEPT !.monsters = FilterAlive(@)]
        loop[i \in 0..Len(s0.monsters)] ==
            IF i = 0 THEN [g |-> s0, tests |-> <<>>, secs |-> <<>>]
            ELSE LET Step(r) ==
                        LET Wrap(q) == [g |-> q.g, tests |-> q.tests,
                                        secs |-> r.secs \o combatSections(r.g, i)]
                        IN  Once(Wrap, combatStep(r, t, i))
                 IN  Once(Step, loop[i - 1])
    IN  loop[Len(s0.monsters)]

updateMonstersAndCombat(s, t) == combatResult(s, t).g

-----------------------------------------------------------------------------
(* The Game *)

StateIntro == "StateIntro"
StateMenu == "StateMenu"
StatePlaying == "StatePlaying"
StatePaused == "StatePaused"
StateDeath == "StateDeath"

\* DialogueSystem: the lines, the typewriter, the box sliding in, the input cooldown
NewDialogueSystem ==
    [Active |-> FALSE, NumLines |-> 0, CurrentLine |-> 0, CharIndex |-> 0,
     CharTimer |-> 0, InputCooldown |-> 0, BoxY |-> 0]

\* the fields NewGame sets besides the player's body.  sounds is the set of sound
\* names whose loader has stored a player in g.sounds, embedded is IsEmbedded(),
\* MountainChamberX and MountainChamberY are the package variables of that name,
\* killCount is ui.killCount and the *Option and *Timer fields are those of the
\* intro, menu, pause and death screens
NewGameFields ==
    [gameState |-> StateIntro,
     PlayerHealth |-> 100, PlayerMaxHealth |-> 100, PlayerInvincibleTimer |-> 0,
     monsters |-> <<>>, killCount |-> 0,
     questCompleted |-> FALSE, bigChestSpawned |-> FALSE, bigChestX |-> 0, bigChestY |-> 0,
     showReward |-> FALSE, rewardAnimTimer |-> 0,
     showDebug |-> FALSE, showPalette |-> FALSE,
     audioEnabled |-> TRUE, isRunningPlaying |-> FALSE, bgMusicPlaying |-> FALSE,
     sounds |-> {}, embedded |-> FALSE,
     MountainChamberX |-> 0, MountainChamberY |-> 0,
     cameraX |-> 0, cameraY |-> 0, frameWidth |-> 100, frameHeight |-> 64,
     dialogueSystem |-> NewDialogueSystem,
     introTimer |-> 0, menuOption |-> 0, pauseOption |-> 0,
     deathOption |-> 0, deathTimer |-> 0, terminated |-> FALSE]

NewGame(x, y) == NewPlayer(x, y) @@ NewGameFields

updateInvincibility(s) ==
    [s EXCEPT !.PlayerInvincibleTimer = IF @ > 0 THEN @ - 1 ELSE @]

updateCamera(s, t) ==
    LET mapW == t.Cols * TileSize * FP
        mapH == t.Rows * TileSize * FP
        tx0 == s.x - (ScreenWidth * FP) \div 2
        ty0 == s.y - (ScreenHeight * FP) \div 2
        tx1 == IF tx0 < 0 THEN 0 ELSE tx0
        ty1 == IF ty0 < 0 THEN 0 ELSE ty0
    IN  [s EXCEPT !.cameraX = IF tx1 > mapW - ScreenWidth * FP
                              THEN mapW - ScreenWidth * FP ELSE tx1,
                  !.cameraY = IF ty1 > mapH - ScreenHeight * FP
                              THEN mapH - ScreenHeight * FP ELSE ty1]

-----------------------------------------------------------------------------
(* The dialogue box and the screens *)

\* characters of every dialogue line of the model
LineLen == 2

CharsPerTick == 2
DialogueBoxH == 150
SlideInSpeed == 10
DialogueCooldown == 10

\* DialogueSystem.Start with n lines
DialogueStart(d, n) ==
    [d EXCEPT !.Active = TRUE, !.NumLines = n, !.CurrentLine = 0, !.CharIndex = 0,
              !.CharTimer = 0, !.InputCooldown = DialogueCooldown,
              !.BoxY = ScreenHeight + DialogueBoxH]

\* DialogueSystem.Update; the typewriter shows one character every CharsPerTick
\* ticks (the blanks it skips are not told apart)
DialogueUpdate(d, k) ==
    IF ~d.Active \/ d.NumLines = 0
    THEN d
    ELSE LET targetY == ScreenHeight - DialogueBoxH - 30
             cool == IF d.InputCooldown > 0 THEN d.InputCooldown - 1 ELSE d.InputCooldown
             boxY == IF d.BoxY > targetY THEN Max(d.BoxY - SlideInSpeed, targetY) ELSE d.BoxY
             typing == d.CharIndex < LineLen
             shown == typing /\ d.CharTimer + 1 >= CharsPerTick
             charTimer == IF ~typing THEN d.CharTimer
                          ELSE IF shown THEN 0 ELSE d.CharTimer + 1
             charIndex == IF shown THEN d.CharIndex + 1 ELSE d.CharIndex
             a == [d EXCEPT !.InputCooldown = cool, !.BoxY = boxY,
                            !.CharTimer = charTimer, !.CharIndex = charIndex]
         IN  IF cool <= 0 /\ boxY <= targetY /\ k.held
             THEN IF charIndex < LineLen
                  THEN [a EXCEPT !.CharIndex = LineLen]
                  ELSE [a EXCEPT !.CurrentLine = @ + 1, !.CharIndex = 0, !.CharTimer = 0,
                                 !.InputCooldown = DialogueCooldown,
                                 !.Active = d.CurrentLine + 1 < d.NumLines]
             ELSE a

\* the option a screen with n options selects after the navigation keys of k
Navigate(option, n, k) ==
    LET a == IF k.up THEN (IF option - 1 < 0 THEN n - 1 ELSE option - 1) ELSE option
    IN  IF k.down THEN (IF a + 1 >= n THEN 0 ELSE a + 1) ELSE a

\* Enter or Space was just pressed
Selects(k) == k.enter \/ k.jump

\* the timers of the intro and death screens count without bound and are only
\* compared with 60: they are kept up to 61
ScreenTimerCap == 61

\* IntroScreen.Update: <<the screen's timer, the new game state>>
IntroUpdate(s, k) ==
    LET timer == Min(s.introTimer + 1, ScreenTimerCap)
    IN  <<timer, IF timer > 60 /\ Selects(k) THEN StateMenu ELSE StateIntro>>

\* MenuScreen.Update: <<selected option, new game state, quit>>
MenuUpdate(s, k) ==
    LET sel == Navigate(s.menuOption, 3, k)
    IN  IF Selects(k)
        THEN <<sel, IF sel = 0 THEN StatePlaying ELSE StateMenu, sel = 2>>
        ELSE <<sel, StateMenu, FALSE>>

\* PauseScreen.Update: <<selected option, new game state, restart>>
PauseUpdate(s, k) ==
    IF k.esc
    THEN <<s.pauseOption, StatePlaying, FALSE>>
    ELSE LET sel == Navigate(s.pauseOption, 3, k)
         IN  IF Selects(k)
             THEN <<sel, IF sel = 2 THEN StateMenu ELSE StatePlaying, sel = 1>>
             ELSE <<sel, StatePaused, FALSE>>

\* DeathScreen.Update: <<timer, selected option, new game state, restart>>
DeathUpdate(s, k) ==
    LET timer == Min(s.deathTimer + 1, ScreenTimerCap)
    IN  IF timer < 60
        THEN <<timer, s.deathOption, StateDeath, FALSE>>
        ELSE LET sel == Navigate(s.deathOption, 2, k)
             IN  IF Selects(k)
                 THEN <<timer, sel, IF sel = 0 THEN StatePlaying ELSE StateMenu, sel = 0>>
                 ELSE <<timer, sel, StateDeath, FALSE>>

-----------------------------------------------------------------------------
(* Game.Update *)

startBackgroundMusic(s) ==
    IF s.audioEnabled /\ "background" \in s.sounds /\ ~s.bgMusicPlaying
    THEN [s EXCEPT !.bgMusicPlaying = TRUE] ELSE s

stopBackgroundMusic(s) ==
    IF "background" \in s.sounds THEN [s EXCEPT !.bgMusicPlaying = FALSE] ELSE s

handleDebugInputs(s, k) ==
    LET a == [s EXCEPT !.showDebug = IF k.f1 THEN ~@ ELSE @,
                       !.showPalette = IF k.f2 THEN ~@ ELSE @]
    IN  IF ~k.m THEN a
        ELSE IF ~a.audioEnabled
        THEN startBackgroundMusic([a EXCEPT !.audioEnabled = TRUE])
        ELSE [stopBackgroundMusic([a EXCEPT !.audioEnabled = FALSE])
                 EXCEPT !.isRunningPlaying = FALSE]

updateRunningSound(s) ==
    LET isMoving == s.isGrounded /\ (s.vx > FP \div 2 \/ s.vx < -(FP \div 2))
                    /\ ~s.isAttacking /\ ~s.isProtecting
    IN  IF ~s.audioEnabled \/ "running" \notin s.sounds THEN s
        ELSE IF isMoving /\ ~s.isRunningPlaying THEN [s EXCEPT !.isRunningPlaying = TRUE]
        ELSE IF ~isMoving /\ s.isRunningPlaying THEN [s EXCEPT !.isRunningPlaying = FALSE]
        ELSE s

\* Game.updatePlayer: the dialogue box, when active, takes the tick
updatePlayerOrDialogue(s, k, t) ==
    IF s.dialogueSystem.Active
    THEN [s EXCEPT !.dialogueSystem = DialogueUpdate(@, k)]
    ELSE updatePlayer(s, k, t, FALSE)

\* nine tiles that begin two columns to the left of the player's
ChestCandidates_Wide(s) ==
    LET px == TileOf(s.x)
        py == TileOf(s.y)
    IN  [n \in 1..9 |-> <<px + ((n - 1) \div 3) - 2, py + ((n - 1) % 3) - 1>>]

\* the tiles around the player in the order checkChestInteraction visits them
ChestCandidates(s) ==
    LET px == TileOf(s.x)
        py == TileOf(s.y)
    IN  [n \in 1..9 |-> <<px + ((n - 1) \div 3) - 1, py + ((n - 1) % 3) - 1>>]

IsChestAt(t, c) ==
    /\ c[1] >= 0 /\ c[1] < t.Cols /\ c[2] >= 0 /\ c[2] < t.Rows
    /\ t.Grid[c[2]][c[1]] = ID_Chest

\* checkChestInteraction healing without the cap at PlayerMaxHealth
checkChestInteraction_NoCap(s, t, k) ==
    LET cand == ChestCandidates(s)
        found == {n \in 1..9 : IsChestAt(t, cand[n])}
    IN  IF ~k.e \/ found = {}
        THEN [g |-> s, tm |-> t]
        ELSE LET c == cand[CHOOSE n \in found : \A o \in found : n <= o]
             IN  [g |-> IF s.PlayerHealth < s.PlayerMaxHealth
                        THEN [s EXCEPT !.PlayerHealth = @ + 20]
                        ELSE s,
                  tm |-> [t EXCEPT !.Grid[c[2]][c[1]] = 0]]

\* checkChestInteraction: the Game and the tilemap after it
checkChestInteraction(s, t, k) ==
    LET cand == ChestCandidates(s)
        found == {n \in 1..9 : IsChestAt(t, cand[n])}
    IN  IF ~k.e \/ found = {}
        THEN [g |-> s, tm |-> t]
        ELSE LET c == cand[CHOOSE n \in found : \A o \in found : n <= o]
             IN  [g |-> IF s.PlayerHealth < s.PlayerMaxHealth
                        THEN [s EXCEPT !.PlayerHealth = Min(@ + 20, s.PlayerMaxHealth)]
                        ELSE s,
                  tm |-> [t EXCEPT !.Grid[c[2]][c[1]] = 0]]

\* the sacred chest appearing with six slimes dead
spawnBigChest_AtSix(s) ==
    IF s.killCount >= 6 /\ ~s.questCompleted
    THEN [s EXCEPT !.questCompleted = TRUE, !.bigChestSpawned = TRUE,
                   !.bigChestX = s.MountainChamberX, !.bigChestY = s.MountainChamberY]
    ELSE s

\* the sacred chest appears once seven slimes are dead
spawnBigChest(s) ==
    IF s.killCount >= 7 /\ ~s.questCompleted
    THEN [s EXCEPT !.questCompleted = TRUE, !.bigChestSpawned = TRUE,
                   !.bigChestX = s.MountainChamberX, !.bigChestY = s.MountainChamberY]
    ELSE s

\* the big chest interaction at the end of updatePlaying
openBigChest(s, k) ==
    IF s.bigChestSpawned /\ ~s.showReward /\ k.e
       /\ DistLess(s.x - s.bigChestX, s.y - s.bigChestY, 250)
    THEN [s EXCEPT !.showReward = TRUE, !.isRunningPlaying = FALSE]
    ELSE s

\* startBackgroundMusic returns before the lock when the audio is off
startMusicSections(s) ==
    IF s.audioEnabled THEN Section("startBackgroundMusic") ELSE <<>>

\* handleDebugInputs: the M key
debugSections(s, k) ==
    IF ~k.m THEN <<>>
    ELSE IF ~s.audioEnabled THEN Section("startBackgroundMusic")
    ELSE Section("stopBackgroundMusic") \o Section("handleDebugInputs")

runningSections(s) ==
    IF s.audioEnabled THEN Section("updateRunningSound") ELSE <<>>

\* the big chest interaction with pauseBackgroundMusic called inside the section
rewardSections_Nested(s, k) ==
    IF openBigChest(s, k) # s
    THEN << <<"RLock", "updatePlaying">>, <<"RLock", "pauseBackgroundMusic">>,
            <<"RUnlock", "pauseBackgroundMusic">>, <<"RUnlock", "updatePlaying">> >>
    ELSE <<>>

\* the big chest interaction: pauseBackgroundMusic, then the section that
\* pauses the running and slime sounds
rewardSections(s, k) ==
    IF openBigChest(s, k) # s
    THEN Section("pauseBackgroundMusic") \o Section("updatePlaying")
    ELSE <<>>

\* updatePlaying: the Game, the tilemap, the functions entered and the calls
\* made on soundMutex, in order
updatePlaying(s, t, k) ==
    LET AfterCombat(r) ==
            LET Chest(d) ==
                    [g |-> openBigChest(d, k), tm |-> r.tm,
                     calls |-> <<"updatePlaying", "updateInvincibility", "updatePlayer",
                                 "updateMonstersAndCombat">>,
                     locks |-> r.locks
                         \o (IF d # r.g THEN Section("updatePlaying") ELSE <<>>)
                         \o rewardSections(d, k)]
            IN  Once(Chest, spawnBigChest(r.g))
        AfterChest(r) ==
            LET Wrap(c) == [g |-> updateCamera(c.g, r.tm), tm |-> r.tm,
                            locks |-> r.locks \o c.secs]
            IN  Once(AfterCombat, Once(Wrap, combatResult(r.g, r.tm)))
        AfterPlayer(b) ==
            LET Wrap(c) ==
                    [g |-> c.g, tm |-> c.tm,
                     locks |-> debugSections(s, k) \o runningSections(b)
                         \o (IF c.tm # t THEN Section("checkChestInteraction") ELSE <<>>)]
            IN  Once(AfterChest, Once(Wrap, checkChestInteraction(updateRunningSound(b), t, k)))
        AfterDebug(a) ==
            IF a.showPalette
            THEN [g |-> a, tm |-> t, calls |-> <<"updatePlaying">>,
                  locks |-> debugSections(s, k)]
            ELSE Once(AfterPlayer, updatePlayerOrDialogue(updateInvincibility(a), k, t))
    IN  Once(AfterDebug, handleDebugInputs(s, k))


\* the variants of the seven slimes restartGame and NewGame place
SlimeVariants == <<SlimeGreen, SlimeGreen, SlimeGreen, SlimeBlue, SlimeBlue, SlimeRed, SlimeRed>>

\* the seven slimes around the mountain chamber
SpawnSlimes(s) ==
    [i \in 1..7 |-> NewSlime(i, s.MountainChamberX + (i - 4) * 80 * FP,
                             s.MountainChamberY, SlimeVariants[i])]

\* the small world the game is played in: the floor and a chest at the left edge
GameWorld == SmallWorld(BlockGrid(0, GridRows - 2, ID_Chest))

\* restartGame; the world it generates anew is GameWorld again, with the same
\* mountain chamber
restartGame(s) ==
    [s EXCEPT !.x = 1600 * FP, !.y = 0, !.vx = 0, !.vy = 0,
              !.PlayerHealth = s.PlayerMaxHealth,
              !.questCompleted = FALSE, !.bigChestSpawned = FALSE, !.showReward = FALSE,
              !.monsters = SpawnSlimes(s), !.killCount = 0]

\* lines of the intro dialogue and of the dialogue after the reward
IntroLines == 6
RewardLines == 4

\* the StatePlaying case of Game.Update while the reward is shown
updateReward(s, k) ==
    LET a == [s EXCEPT !.rewardAnimTimer = @ + 1]
    IN  IF k.esc \/ k.e
        THEN [a EXCEPT !.showReward = FALSE, !.rewardAnimTimer = 0,
                       !.dialogueSystem = IF s.embedded THEN @
                                          ELSE DialogueStart(@, RewardLines)]
        ELSE a

\* the death check at the end of a StatePlaying update
checkDeath(s) ==
    IF s.PlayerHealth <= 0
    THEN [s EXCEPT !.gameState = StateDeath, !.deathTimer = 0, !.deathOption = 0]
    ELSE s

\* the pause check after updatePlaying
checkPause(s, k) ==
    IF k.esc THEN [s EXCEPT !.gameState = StatePaused, !.pauseOption = 0] ELSE s

\* Game.Update with keys k on tilemap t: the Game, the tilemap, the functions
\* entered and the calls made on soundMutex, in order
Update(s, t, k) ==
    CASE s.gameState = StateIntro ->
           LET r == IntroUpdate(s, k) IN
           [g |-> [s EXCEPT !.introTimer = r[1], !.gameState = r[2],
                            !.menuOption = IF r[2] # StateIntro THEN 0 ELSE @],
            tm |-> t, calls |-> <<"introScreen.Update">>, locks |-> <<>>]
      [] s.gameState = StateMenu ->
           LET r == MenuUpdate(s, k)
               a == [s EXCEPT !.menuOption = r[1]]
           IN  [g |-> IF r[3] THEN [a EXCEPT !.terminated = TRUE]
                      ELSE IF r[2] = StatePlaying
                      THEN LET b == startBackgroundMusic([a EXCEPT !.gameState = StatePlaying])
                           IN  IF ~b.dialogueSystem.Active
                               THEN [b EXCEPT !.dialogueSystem = DialogueStart(@, IntroLines)]
                               ELSE b
                      ELSE a,
                tm |-> t, calls |-> <<"menuScreen.Update">>,
                locks |-> IF ~r[3] /\ r[2] = StatePlaying THEN startMusicSections(s)
                          ELSE <<>>]
      [] s.gameState = StatePlaying ->
           IF s.showReward
           THEN [g |-> updateReward(s, k), tm |-> t, calls |-> <<"reward">>,
                 locks |-> IF k.esc \/ k.e THEN Section("resumeBackgroundMusic") ELSE <<>>]
           ELSE LET Checks(r) ==
                        [r EXCEPT !.g = checkDeath(checkPause(r.g, k)),
                                  !.locks = @ \o (IF k.esc THEN Section("pauseBackgroundMusic")
                                                  ELSE <<>>)
                                              \o (IF r.g.PlayerHealth <= 0
                                                  THEN Section("pauseBackgroundMusic")
                                                  ELSE <<>>)]
                IN  Once(Checks, updatePlaying(s, t, k))
      [] s.gameState = StatePaused ->
           LET r == PauseUpdate(s, k)
               a == [s EXCEPT !.pauseOption = r[1], !.gameState = r[2]]
           IN  IF r[2] = StatePlaying /\ r[3]
               THEN [g |-> restartGame(a), tm |-> GameWorld,
                     calls |-> <<"pauseScreen.Update", "restartGame">>,
                     locks |-> Section("resumeBackgroundMusic")]
               ELSE [g |-> IF r[2] = StateMenu
                           THEN stopBackgroundMusic([a EXCEPT !.menuOption = 0]) ELSE a,
                     tm |-> t, calls |-> <<"pauseScreen.Update">>,
                     locks |-> IF r[2] = StatePlaying THEN Section("resumeBackgroundMusic")
                               ELSE IF r[2] = StateMenu THEN Section("stopBackgroundMusic")
                               ELSE <<>>]
      [] s.gameState = StateDeath ->
           LET r == DeathUpdate(s, k)
               a == [s EXCEPT !.deathTimer = r[1], !.deathOption = r[2], !.gameState = r[3]]
           IN  IF r[3] = StatePlaying /\ r[4]
               THEN [g |-> restartGame(a), tm |-> GameWorld,
                     calls |-> <<"deathScreen.Update", "restartGame">>,
                     locks |-> Section("resumeBackgroundMusic")]
               ELSE [g |-> IF r[3] = StateMenu
                           THEN stopBackgroundMusic([a EXCEPT !.menuOption = 0]) ELSE a,
                     tm |-> t, calls |-> <<"deathScreen.Update">>,
                     locks |-> IF r[3] = StateMenu THEN Section("stopBackgroundMusic")
                               ELSE <<>>]
-----------------------------------------------------------------------------
(* World generation (level_gen.go): the height field.                       *)
(*                                                                          *)
(* Heights of the code are float64 until the final int(): here they are     *)
(* integers in 1/1000 tile, which holds the smoothing of the code exactly   *)
(* (the weights 0.4, 0.3, 0.2, 0.1 and the halving), so that int() is an    *)
(* integer division.  Noise values and biome heights are integers in 1/100, *)
(* a product with a fractional amplitude truncated toward zero.             *)

\* number of noise samples (seeds) the generation is checked with
NumProfiles == 6

BiomePlains == 0
BiomeForest == 1
BiomeMountains == 2
BiomeDesert == 3
BiomeSwamp == 4

\* the two world sizes of GenerateTerrariaWorld
WorldCols(embedded) == IF embedded THEN 200 ELSE 400
WorldRows(embedded) == IF embedded THEN 100 ELSE 150

\* a triangular wave of n with values in -100..100 and period 2 * half
Tri(n, half) ==
    LET m == n % (2 * half)
        up == IF m < half THEN m ELSE 2 * half - m
    IN  (up * 200) \div half - 100

\* how fast, and from where, the noise of sample p moves with its argument
NoiseRate(p) == 400 + 90 * (p - 1)
NoisePhase(p) == 28 + 17 * (p - 1)

\* perlin.Noise1D of sample p at the argument a (in 1/1000): the library is
\* outside the repository and its value is an input of the generation; a sample
\* is a deterministic function of the argument with values in -1.00..1.00
Noise1D(p, a) == Tri((a * NoiseRate(p)) \div 1000 + NoisePhase(p), 50)

\* biomeNoise[x] = Noise1D(x * 0.003)
biomeNoise(p, x) == Noise1D(p, 3 * x)

\* the biome thresholds on the biome noise
AssignBiome(bn) ==
    IF bn < -35 THEN BiomePlains
    ELSE IF bn < -10 THEN BiomeForest
    ELSE IF bn < 15 THEN BiomeMountains
    ELSE IF bn < 40 THEN BiomeDesert
    ELSE BiomeSwamp

biomes(p, x) == AssignBiome(biomeNoise(p, x))

\* 100 * math.Sin(x * 0.1), by Bhaskara's rational approximation of the sine
\* (angles in 1/10000 rad, 31416 for pi; the error is below 0.2 of 100)
Sin100(x) ==
    LET t == (1000 * x) % 62832
        s == IF t > 31416 THEN t - 31416 ELSE t
        q == (s * (31416 - s)) \div 100
        v == (16 * q) \div ((5 * 9869650 - 4 * q) \div 100)
    IN  IF t > 31416 THEN -v ELSE v

\* generateBiomeHeight, in 1/100 tile
generateBiomeHeight(p, x, biome) ==
    LET baseHeight == 5500
    IN  CASE biome = BiomePlains ->
               baseHeight + 3 * Noise1D(p, 10 * x) + Noise1D(p, 50 * x + 100000)
          [] biome = BiomeForest ->
               baseHeight + 4 * Noise1D(p, 8 * x) + 2 * Noise1D(p, 30 * x + 200000)
                          + TruncDiv(Noise1D(p, 100 * x + 250000), 2) - 300
          [] biome = BiomeMountains ->
               baseHeight + 8 * Noise1D(p, 6 * x) + 4 * Noise1D(p, 20 * x + 300000)
                          + Noise1D(p, 80 * x + 350000) - 800
          [] biome = BiomeDesert ->
               baseHeight + TruncDiv(5 * Noise1D(p, 15 * x), 2)
                          + Noise1D(p, 80 * x + 400000)
                          + TruncDiv(3 * Sin100(x), 2) + 500
          [] biome = BiomeSwamp ->
               baseHeight + 2 * Noise1D(p, 12 * x) + Noise1D(p, 40 * x + 500000) - 800
          [] OTHER -> baseHeight

TransitionWidth == 50

\* the blend of the transition zone: the factor is (x - checkX) / transitionWidth
\* for the first column checkX of x-50 .. x-1 whose biome differs from column x
blendHeight(p, x) ==
    LET height == generateBiomeHeight(p, x, biomes(p, x))
    IN  IF x > TransitionWidth /\ biomes(p, x) # biomes(p, x - TransitionWidth)
        THEN LET prevHeight == generateBiomeHeight(p, x, biomes(p, x - TransitionWidth))
                 differ == {c \in (x - TransitionWidth)..(x - 1) : biomes(p, c) # biomes(p, x)}
                 checkX == CHOOSE c \in differ : \A d \in differ : c <= d
                 blend == x - checkX
             IN  (prevHeight * (TransitionWidth - blend) + height * blend) \div TransitionWidth
        ELSE height

SlopeCap == 2
MinSurface == 15
BottomMargin == 30

\* the neighbour smoothing and the slope limit, in 1/1000 tile: h is the height
\* field so far, raw the blended height of column x in 1/100
smoothHeight(h, x, raw) ==
    IF x > 2
    THEN LET avg == 4 * raw + 300 * h[x-1] + 200 * h[x-2] + 100 * h[x-3]
             prevH == 1000 * h[x-1]
         IN  IF avg - prevH > 1000 * SlopeCap THEN prevH + 1000 * SlopeCap
             ELSE IF prevH - avg > 1000 * SlopeCap THEN prevH - 1000 * SlopeCap
             ELSE avg
    ELSE IF x > 0 THEN 5 * raw + 500 * h[x-1]
    ELSE 10 * raw

\* the clamp and the final int()
clampHeight(v, rows) ==
    LET lo == 1000 * MinSurface
        hi == 1000 * (rows - BottomMargin)
    IN  (IF v < lo THEN lo ELSE IF v > hi THEN hi ELSE v) \div 1000

\* the body of the surface-height loop for column x
columnHeight(p, h, x, rows) == clampHeight(smoothHeight(h, x, blendHeight(p, x)), rows)
-----------------------------------------------------------------------------
(* World generation: the passes after the height field.  Of the grid the    *)
(* model keeps the column of the player's spawn, column 100 (the player is  *)
(* created at x = 1600 with 16-pixel tiles): gen.column[y] is Grid[y][100]. *)

SpawnColumn == 100
SpawnStart == 80
SpawnEndMax == 140

\* spawnEnd: 140, or the last column of a narrower world
SpawnEnd(cols) == IF SpawnEndMax >= cols THEN cols - 1 ELSE SpawnEndMax

RECURSIVE SumHeights(_, _, _)
\* the sum of h over the columns lo .. hi
SumHeights(h, lo, hi) == IF lo > hi THEN 0 ELSE h[lo] + SumHeights(h, lo + 1, hi)

\* the spawn zone flattening: every column of the window takes the integer mean
flattenSpawn(h, cols) ==
    LET avg == SumHeights(h, SpawnStart, SpawnEnd(cols))
                   \div (SpawnEnd(cols) - SpawnStart + 1)
    IN  [x \in DOMAIN h |-> IF x >= SpawnStart /\ x <= SpawnEnd(cols) THEN avg ELSE h[x]]

\* the surface blocks a biome can get
SurfaceTiles(biome) ==
    CASE biome = BiomeDesert -> {ID_Sand}
      [] biome = BiomeSwamp -> {ID_Dirt}
      [] biome = BiomeMountains -> {ID_Stone, ID_Grass}
      [] OTHER -> {ID_Grass}

\* the values of dirtDepth: 8 + rand.Intn(6), 2 + rand.Intn(3), 12 + rand.Intn(5)
DirtDepths(biome) ==
    CASE biome = BiomeMountains -> 2..4
      [] biome = BiomeDesert -> 12..16
      [] OTHER -> 8..13

\* the tiles of the stone layer, by underground biome (ores are written by
\* generateOreVein over Stone and DarkStone only)
StoneTiles == {ID_Stone, ID_MossyStone, ID_DarkStone}

\* a fill that leaves the first row under the surface empty
fillColumn_Gap(yGeo, rows, biome, surface, dirtDepth, stone) ==
    [y \in 0..(rows - 1) |->
        IF y = yGeo THEN surface
        ELSE IF y <= yGeo + 1 THEN 0
        ELSE IF y - yGeo < dirtDepth
             THEN (IF biome = BiomeDesert THEN ID_Sand ELSE ID_Dirt)
        ELSE stone]

\* the block fill of one column: air above yGeo, the surface block at yGeo, the
\* dirt or sand layer under it, then the stone layer
fillColumn(yGeo, rows, biome, surface, dirtDepth, stone) ==
    [y \in 0..(rows - 1) |->
        IF y < yGeo THEN 0
        ELSE IF y = yGeo THEN surface
        ELSE IF y - yGeo < dirtDepth
             THEN (IF biome = BiomeDesert THEN ID_Sand ELSE ID_Dirt)
        ELSE stone]

LavaRows == 8

\* the lava band over the bottom rows
lavaBand(col, rows) ==
    [y \in DOMAIN col |-> IF y >= rows - LavaRows THEN ID_Lava ELSE col[y]]

CaveMinDepth == 15
CarveMargin == 10

\* the rows of the column a cavern of the given radius centred on it at row cy
\* empties: ny > 0 and ny < Rows - 10
carveColumn(col, rows, cy, radius) ==
    [y \in DOMAIN col |->
        IF y >= cy - radius /\ y <= cy + radius /\ y > 0 /\ y < rows - CarveMargin
        THEN 0 ELSE col[y]]

\* the caverns over the spawn column: none, or one centred at the least depth
\* with the least or the greatest radius, 8 + rand.Intn(12)
CaveRadii == {0, 8, 19}

caves(col, rows, yGeo, radius) ==
    IF radius = 0 \/ rows - CaveMinDepth <= yGeo + CaveMinDepth THEN col
    ELSE carveColumn(col, rows, yGeo + CaveMinDepth, radius)

\* a stalagmite of a cavern on the column: Stone from row sy upward for height
\* rows, where the row is in the grid (sy-h >= 0 and sy-h < Rows)
stalagmite(col, rows, sy, height) ==
    [y \in DOMAIN col |->
        IF y <= sy /\ y > sy - height /\ y >= 0 /\ y < rows THEN ID_Stone ELSE col[y]]

\* a cavern centred on the column at the greatest depth, cy = Rows - 16, with a
\* stalagmite of the given height on the column that starts at
\* sy = cy + radius - rand.Intn(radius/2), the draw being 0
deepCavern(col, rows, radius, height) ==
    LET cy == rows - CaveMinDepth - 1
    IN  stalagmite(carveColumn(col, rows, cy, radius), rows, cy + radius, height)

\* the stalagmite on the column: none, or one of the least or the greatest
\* height, 2 + rand.Intn(4)
SpikeHeights(radius) == IF radius = 0 THEN {0} ELSE {0, 2, 5}

\* a stalactite of a cavern on the column: Stone from row sy downward for height
\* rows, where the row is in the grid (sy+h >= 0 and sy+h < Rows)
stalactite(col, rows, sy, height) ==
    [y \in DOMAIN col |->
        IF y >= sy /\ y < sy + height /\ y >= 0 /\ y < rows THEN ID_Stone ELSE col[y]]

\* the chest pass of a cavern at the cell of row ny on the column, when the draw
\* rand.Float64() < 0.03 succeeds there: an empty cell of the square over a
\* solid one becomes a chest
cavernChest(col, rows, cy, radius, ny) ==
    IF /\ ny >= cy - radius /\ ny <= cy + radius /\ ny >= 0 /\ ny < rows
       /\ col[ny] = 0
       /\ ny + 1 < rows /\ IsSolid(col[ny + 1])
    THEN [col EXCEPT ![ny] = ID_Chest]
    ELSE col

\* a cavern centred on the column at the least depth, cy = yGeo + 15, wide
\* enough to empty the surface row, with a stalactite of the least height on the
\* column that starts right under the surface row (sy = cy - radius + o with the
\* draw o = radius - 14 of rand.Intn(radius/2)), and the chest draw succeeding on
\* the surface row
hungCavern(col, rows, yGeo, radius) ==
    IF radius = 0 \/ rows - CaveMinDepth <= yGeo + CaveMinDepth THEN col
    ELSE LET cy == yGeo + CaveMinDepth
             o == radius - CaveMinDepth + 1
             carved == carveColumn(col, rows, cy, radius)
             hung == stalactite(carved, rows, cy - radius + o, 2)
         IN  cavernChest(hung, rows, cy, radius, yGeo)

\* the caverns with such a stalactite: the draw o is in 0 .. radius/2 - 1
HangRadii == {r \in CaveRadii : r > CaveMinDepth /\ r - CaveMinDepth + 1 < r \div 2}

\* placePathChests.  The six columns of the path from the spawn to the chamber
PathChestColumns == <<115, 140, 170, 200, 235, 270>>

\* placePathChests on the column cx, whose ground row is groundY: no chest for a
\* column that is not on the path or outside the grid; a chest one row above the
\* ground when that cell is empty and the ground cell is not 0
placePathChests(col, cols, rows, cx, groundY) ==
    LET chestY == groundY - 1
    IN  IF cx >= cols \/ (\A i \in DOMAIN PathChestColumns : PathChestColumns[i] # cx)
        THEN col
        ELSE IF chestY >= 0 /\ chestY < rows /\ col[chestY] = 0 /\ col[groundY] # 0
        THEN [col EXCEPT ![chestY] = ID_Chest]
        ELSE col

\* a sky island whose middle is over the column: SkyGrass at row iy, Dirt under
\* it for depth rows in all, and hanging vines (Leaves) for vines rows more;
\* setTile writes any row of the grid
skyIsland(col, iy, depth, vines) ==
    [y \in DOMAIN col |->
        IF y = iy THEN ID_SkyGrass
        ELSE IF y > iy /\ y < iy + depth THEN ID_Dirt
        ELSE IF y >= iy + depth /\ y < iy + depth + vines THEN ID_Leaves
        ELSE col[y]]

\* the islands over the spawn column: none, the highest and smallest, the lowest
\* and largest with the longest vines (iy = 10 + rand.Intn(30), height 3..8)
SkyIslands == {<<0, 0, 0>>, <<10, 3, 0>>, <<39, 8, 4>>}

skyIslands(col, isl) == IF isl[2] = 0 THEN col ELSE skyIsland(col, isl[1], isl[2], isl[3])

\* what the surface-feature loop can put on the column whose surface row is y:
\* by the surface tile, the biome and whether the row above is still empty
Features(col, y, biome) ==
    LET surfaceTile == col[y]
        free == col[y-1] = 0
    IN  {"none"}
        \cup (IF surfaceTile = ID_Grass /\ free THEN {"tree", "flower", "tuft"} ELSE {})
        \cup (IF biome = BiomeSwamp /\ surfaceTile = ID_Dirt /\ free
              THEN {"mushroom", "deadtree"} ELSE {})
        \cup (IF surfaceTile = ID_Sand /\ free THEN {"cactus", "boulder"} ELSE {})
        \cup (IF biome = BiomeMountains THEN {"rocks"} ELSE {})
        \cup (IF biome = BiomeMountains /\ free THEN {"crystal"} ELSE {})

\* rows y-n .. y-1 of the column set to id; where onlyFree, only the empty ones
stamp(col, y, n, id, onlyFree) ==
    [r \in DOMAIN col |->
        IF r >= y - n /\ r <= y - 1 /\ r >= 0 /\ (~onlyFree \/ col[r] = 0)
        THEN id ELSE col[r]]

\* the feature f on the column: a tree of the least height (a trunk of 5 logs and
\* leaves over it), a dead tree of 3 logs, a cactus of 2, a rock pile of size 2
surfaceFeature(col, y, f) ==
    CASE f = "tree" -> stamp(stamp(col, y, 5, ID_Log, FALSE), y - 5, 3, ID_Leaves, TRUE)
      [] f = "flower" -> stamp(col, y, 1, ID_Flower, FALSE)
      [] f = "tuft" -> stamp(col, y, 1, ID_Leaves, FALSE)
      [] f = "mushroom" -> stamp(col, y, 1, ID_Mushroom, FALSE)
      [] f = "deadtree" -> stamp(col, y, 3, ID_Log, FALSE)
      [] f = "cactus" -> stamp(col, y, 2, ID_Log, FALSE)
      [] f = "boulder" -> stamp(col, y, 1, ID_Stone, FALSE)
      [] f = "rocks" -> stamp(col, y, 2, ID_Stone, TRUE)
      [] f = "crystal" -> stamp(col, y, 1, ID_Crystal, FALSE)
      [] OTHER -> col

ChamberTarget == 300
ChamberWidth == 40

\* a chamber that starts inside the spawn window
ChamberStart_InSpawn(cols) == 120

\* chamberX: column 300, or 50 columns from the right edge of a narrower world
ChamberStart(cols) ==
    IF ChamberTarget >= cols - ChamberWidth THEN cols - 50 ELSE ChamberTarget

\* the last column of the chamber floor
ChamberLast(cols) == Min(ChamberStart(cols) + ChamberWidth, cols) - 1

\* avgHeight: the sum over the chamber's columns divided by chamberWidth
chamberHeight(h, cols) ==
    SumHeights(h, ChamberStart(cols), ChamberLast(cols)) \div ChamberWidth

\* the columns generateMountainChamber writes tiles in: the floor, the walls of
\* two columns and the ramps of four on either side
ChamberTiles(cols) == (ChamberStart(cols) - 6)..(ChamberStart(cols) + ChamberWidth + 5)

\* the height field after generateMountainChamber
generateMountainChamber(h, cols) ==
    [x \in DOMAIN h |->
        IF x >= ChamberStart(cols) /\ x <= ChamberLast(cols)
        THEN chamberHeight(h, cols) ELSE h[x]]

\* the tiles generateMountainChamber writes in column x of the grid, col, around
\* the floor row avgHeight: over the floor the ground tile, twelve rows of air
\* above it and Stone below it down to the carve margin, then the pillars with
\* their crystals; beside the floor the walls and the ramps
chamberColumn(col, rows, cols, x, avgHeight) ==
    LET chamberX == ChamberStart(cols)
        onFloor == x >= chamberX /\ x < chamberX + ChamberWidth /\ x < cols
        isWall == x \in {chamberX - 1, chamberX - 2, chamberX + ChamberWidth,
                         chamberX + ChamberWidth + 1}
        isPillar == x \in {chamberX + 8 * n : n \in 1..3}
        rampRows == {avgHeight - i : i \in {i \in 0..3 :
                        x = chamberX - 3 - i \/ x = chamberX + ChamberWidth + 2 + i}}
        inGrid(y) == x >= 0 /\ x < cols /\ y >= 0 /\ y < rows
        arena == [y \in DOMAIN col |->
                    IF ~onFloor THEN col[y]
                    ELSE IF y = avgHeight THEN ID_Stone
                    ELSE IF y >= avgHeight - 12 /\ y < avgHeight THEN 0
                    ELSE IF y > avgHeight /\ y < rows - CarveMargin THEN ID_Stone
                    ELSE col[y]]
        walls == [y \in DOMAIN col |->
                    IF isWall /\ inGrid(y) /\ y >= avgHeight - 15 /\ y <= avgHeight
                    THEN ID_DarkStone ELSE arena[y]]
        pillars == [y \in DOMAIN col |->
                      IF isPillar /\ inGrid(y) /\ y >= avgHeight - 6 /\ y < avgHeight
                      THEN ID_Stone
                      ELSE IF isPillar /\ inGrid(y) /\ y = avgHeight - 7 THEN ID_Crystal
                      ELSE walls[y]]
    IN  [y \in DOMAIN col |->
            IF inGrid(y) /\ y \in rampRows THEN ID_Stone ELSE pillars[y]]
-----------------------------------------------------------------------------
(* World generation: the grid indices the carving and shaping operations    *)
(* use.  An index is a pair <<y, x>> for Grid[y][x]; the set an operation   *)
(* is given here holds every index it reads or writes under any outcome of  *)
(* its random draws and any content of the grid.                            *)

\* the indices of a grid of the given size
GridIndices(cols, rows) == (0..(rows - 1)) \X (0..(cols - 1))

\* the offsets <<rx, ry>> of a round stamp of radius r
Disc(r) == {d \in (-r..r) \X (-r..r) : d[1] * d[1] + d[2] * d[2] <= r * r}

\* a round stamp with no test of the rows
carveStamp_AnyRow(cols, rows, ix, iy, r) ==
    {<<iy + d[2], ix + d[1]>> : d \in {d \in Disc(r) : ix + d[1] > 0 /\ ix + d[1] < cols - 1}}

\* the cells one step of generateSmootherCave, or one point of generateTunnel,
\* empties around <<ix, iy>>: nx > 0, nx < Cols-1, ny > 0, ny < Rows-10
carveStamp(cols, rows, ix, iy, r) ==
    {<<iy + d[2], ix + d[1]>> :
        d \in {d \in Disc(r) : /\ ix + d[1] > 0 /\ ix + d[1] < cols - 1
                               /\ iy + d[2] > 0 /\ iy + d[2] < rows - CarveMargin}}

\* generateTunnel from <<x1, y1>> to <<x2, y2>>: a stamp of radius 2 at each of
\* the steps + 1 points of the line
generateTunnel(cols, rows, x1, y1, x2, y2) ==
    LET steps == Max(Abs(x2 - x1), Abs(y2 - y1))
    IN  IF steps = 0 THEN {}
        ELSE UNION {carveStamp(cols, rows, (x1 * (steps - i) + x2 * i) \div steps,
                                           (y1 * (steps - i) + y2 * i) \div steps, 2) :
                       i \in 0..steps}

\* the cells generateCavern empties: rx*rx + 0.8*ry*ry <= radius*radius
cavernCarve(cols, rows, startX, startY, radius) ==
    {<<startY + d[2], startX + d[1]>> :
        d \in {d \in (-radius..radius) \X (-radius..radius) :
                 /\ 5 * d[1] * d[1] + 4 * d[2] * d[2] <= 5 * radius * radius
                 /\ startX + d[1] > 0 /\ startX + d[1] < cols - 1
                 /\ startY + d[2] > 0 /\ startY + d[2] < rows - CarveMargin}}

\* the cells the stalactites and stalagmites of a cavern can fill with stone:
\* sx = startX + Intn(2*radius) - radius; a stalactite goes down from
\* sy = startY - radius + Intn(radius/2), a stalagmite up from
\* sy = startY + radius - Intn(radius/2), for 2 + Intn(4) cells
cavernSpikes(cols, rows, startX, startY, radius) ==
    LET sxs == {sx \in (startX - radius)..(startX + radius - 1) : sx >= 0 /\ sx < cols}
        offs == 0..(radius \div 2 - 1)
        down == {startY - radius + o + h : o \in offs, h \in 0..4}
        up == {startY + radius - o - h : o \in offs, h \in 0..4}
    IN  {y \in down \cup up : y >= 0 /\ y < rows} \X sxs

\* the chest pass of a cavern: it reads each cell of the square that lies in the
\* grid and, where ny+1 < Rows, the cell under it
cavernChests(cols, rows, startX, startY, radius) ==
    LET cells == {c \in ((startY - radius)..(startY + radius))
                          \X ((startX - radius)..(startX + radius)) :
                     c[2] >= 0 /\ c[2] < cols /\ c[1] >= 0 /\ c[1] < rows}
    IN  cells \cup {<<c[1] + 1, c[2]>> : c \in {c \in cells : c[1] + 1 < rows}}

\* generateCavern
generateCavern(cols, rows, startX, startY, radius) ==
    cavernCarve(cols, rows, startX, startY, radius)
        \cup cavernSpikes(cols, rows, startX, startY, radius)
        \cup cavernChests(cols, rows, startX, startY, radius)

\* setTile of generateSkyIsland and generateMountainChamber: of the cells asked
\* for, the ones in the grid are written
setTile(cols, rows, cells) == cells \cap GridIndices(cols, rows)

\* generateTree at column x on the row rootY: the trunk, 5 + Intn(5) cells up
\* from rootY-1 where the row is not negative, and the leaves, read and written
\* in the grid only, in the rows top-3 .. top+1 within 3 columns of x
generateTree(cols, rows, x, rootY) ==
    {<<rootY - h, x>> : h \in {h \in 1..9 : rootY - h >= 0}}
        \cup UNION {{c \in ((rootY - height - 3)..(rootY - height + 1)) \X ((x - 3)..(x + 3)) :
                        c[2] >= 0 /\ c[2] < cols /\ c[1] >= 0 /\ c[1] < rows} :
                    height \in 5..9}

\* generateSkyIsland at <<x, y>> with the drawn width and height: the body and
\* the vines under it and the chest and the crystal through setTile; the trees,
\* whose column treeX = x + 3 + Intn(width-6) is tested against the grid before
\* Grid[y][treeX] is read; the flowers, which read Grid[y][fx] and Grid[y-1][fx]
\* for the columns fx of the grid, when y-1 >= 0
generateSkyIsland(cols, rows, x, y, width, height) ==
    LET body == (y..(y + height + 3)) \X (x..(x + width - 1))
        chest == {<<y - 1, x + width \div 2>>}
        crystal == ((y - 2)..(y + 1)) \X {x + width + 3}
        treeXs == {t \in (x + 3)..(x + width - 4) : t >= 0 /\ t < cols /\ y - 1 >= 0}
        trees == UNION {{<<y, t>>} \cup generateTree(cols, rows, t, y) : t \in treeXs}
        fxs == {f \in (x + 1)..(x + width - 2) : f >= 0 /\ f < cols /\ y - 1 >= 0}
        flowers == {y, y - 1} \X fxs
    IN  setTile(cols, rows, body \cup chest \cup crystal) \cup trees \cup flowers

\* the sizes of the three island types: the least and the greatest of each
IslandSizes == {<<10, 3>>, <<17, 4>>, <<18, 4>>, <<29, 6>>, <<25, 5>>, <<39, 8>>}

\* the tiles generateMountainChamber writes around the floor row avgHeight, all
\* of them through setTile: floor, arena and fill; walls; pillars; ramps
chamberCells(cols, rows, avgHeight) ==
    LET chamberX == ChamberStart(cols)
        floorXs == {x \in chamberX..(chamberX + ChamberWidth - 1) : x < cols}
        arena == {y \in (avgHeight - 12)..(rows - 11) : y >= 0} \X floorXs
        walls == {y \in (avgHeight - 15)..avgHeight : y >= 0}
                     \X {chamberX - 1, chamberX - 2, chamberX + ChamberWidth,
                         chamberX + ChamberWidth + 1}
        pillars == ((avgHeight - 7)..(avgHeight - 1))
                     \X {chamberX + 8 * n : n \in 1..3}
        ramps == UNION {{<<avgHeight - i, chamberX - 3 - i>>,
                         <<avgHeight - i, chamberX + ChamberWidth + 2 + i>>} :
                        i \in {i \in 0..3 : avgHeight - i >= 0}}
    IN  setTile(cols, rows, arena \cup walls \cup pillars \cup ramps)

-----------------------------------------------------------------------------
(* Specification of damage and combat: TakeDamage, PlayerTakeDamage,         *)
(* Monster.Update, updateInvincibility and updateMonstersAndCombat called   *)
(* in any order on a fight in progress                                      *)

\* the player stands on the floor in the middle of the small world
FightX == (GridCols * TileSize * FP) \div 2
FloorY == (GridRows - 1) * TileSize * FP

\* a slime standing on the floor, with the given health and timer
StandingSlime(id, x, variant, health, timer) ==
    [NewSlime(id, x, FloorY - 128 * FP, variant)
        EXCEPT !.Health = health, !.InvincibleTimer = timer]

\* a fight in progress: five slimes are dead and gone, one stands on the player
\* and one stands within reach of the sword
Fights ==
    { updateCamera(
        [NewGame(FightX, FloorY) EXCEPT
            !.gameState = StatePlaying, !.isGrounded = TRUE, !.coyoteTimer = CoyoteFrames,
            !.isAttacking = (mode = "attack"), !.isProtecting = (mode = "protect"),
            !.currentState = IF mode = "attack" THEN StateAttack
                             ELSE IF mode = "protect" THEN StateProtection ELSE StateIdle,
            !.currentFrame = IF mode = "attack" THEN 2 ELSE 0,
            !.totalFrames = AnimFrames(IF mode = "attack" THEN StateAttack
                             ELSE IF mode = "protect" THEN StateProtection ELSE StateIdle)[1],
            !.frameDelay = AnimFrames(IF mode = "attack" THEN StateAttack
                             ELSE IF mode = "protect" THEN StateProtection ELSE StateIdle)[2],
            !.PlayerHealth = ph, !.PlayerInvincibleTimer = pt,
            !.killCount = 5,
            !.monsters = << StandingSlime(1, FightX - 64 * FP, SlimeGreen, mh, mt),
                            StandingSlime(2, FightX - 38 * FP, SlimeRed,
                                          SlimeStats(SlimeRed)[1], 0) >>],
        SmallWorld(FloorGrid)) :
        mode \in {"idle", "attack", "protect"}, ph \in {100, 10}, pt \in {0, 1},
        mh \in {20, 10}, mt \in {0, 1} }

InitCombat ==
    /\ tm = SmallWorld(FloorGrid)
    /\ g \in Fights
    /\ in = NoKeys
    /\ op = "init" /\ arg = <<>> /\ ret = 0 /\ idx = <<>>
    /\ mid = g
    /\ ticks = 0
    /\ pre = g /\ calls = <<>> /\ prev = NoPrev /\ gen = NoGen

\* the bookkeeping of a call: what the step was, and what it started from
Called(name, a) ==
    /\ ticks < MaxTicks
    /\ ticks' = ticks + 1
    /\ op' = name /\ arg' = a
    /\ pre' = g
    /\ prev' = [op |-> op, arg |-> arg, pre |-> pre]
    /\ UNCHANGED <<tm, in, ret, idx, mid, gen>>

CallTakeDamage ==
    \E i \in 1..Len(g.monsters), kb \in {AttackKnockback} :
        /\ g' = [g EXCEPT !.monsters[i] = TakeDamage(@, AttackDamage, kb)]
        /\ calls' = <<>>
        /\ Called("TakeDamage", <<i, AttackDamage, kb>>)

CallPlayerTakeDamage ==
    \E amount \in {10, 15}, kb \in {TouchKnockback} :
        /\ g' = PlayerTakeDamage(g, amount, kb)
        /\ calls' = <<>>
        /\ Called("PlayerTakeDamage", <<amount, kb>>)

CallMonsterUpdate ==
    \E i \in 1..Len(g.monsters) :
        /\ g' = [g EXCEPT !.monsters[i] = MonsterUpdate(@, g, tm)]
        /\ calls' = <<>>
        /\ Called("Monster.Update", <<i>>)

CallUpdateInvincibility ==
    /\ g' = updateInvincibility(g)
    /\ calls' = <<>>
    /\ Called("updateInvincibility", <<>>)

CallCombat ==
    /\ g' = updateMonstersAndCombat(g, tm)
    /\ calls' = combatResult(g, tm).tests
    /\ Called("updateMonstersAndCombat", <<>>)

NextCombat ==
    \/ CallTakeDamage
    \/ CallPlayerTakeDamage
    \/ CallMonsterUpdate
    \/ CallUpdateInvincibility
    \/ CallCombat

SpecCombat == InitCombat /\ [][NextCombat]_vars

-----------------------------------------------------------------------------
(* Specification of the game: Game.Update ticks from the intro screen and    *)
(* from fights in progress                                                  *)

AllSounds == {"background", "running", "attack", "chest", "slime"}

\* the mountain chamber of the small world: in the middle, two tiles above the floor
SmallChamberX == FightX
SmallChamberY == FloorY - 2 * TileSize * FP

\* NewGame once the sounds are loaded
FreshGame ==
    LET a == [NewGame(1600 * FP, 0) EXCEPT
                 !.sounds = AllSounds,
                 !.MountainChamberX = SmallChamberX, !.MountainChamberY = SmallChamberY]
    IN  [a EXCEPT !.monsters = SpawnSlimes(a)]

\* a fight in progress on the floor of GameWorld, the intro dialogue long over:
\* the player, idle or in the third frame of a swing, with a green slime on top
\* that an earlier swing has hurt, and perhaps a red slime in reach of the sword;
\* the other slimes are dead and gone
GameFights ==
    { updateCamera(
        [FreshGame EXCEPT
            !.gameState = StatePlaying, !.bgMusicPlaying = TRUE, !.introTimer = ScreenTimerCap,
            !.x = FightX, !.y = FloorY, !.isGrounded = TRUE, !.coyoteTimer = CoyoteFrames,
            !.isAttacking = swing,
            !.currentState = IF swing THEN StateAttack ELSE StateIdle,
            !.currentFrame = IF swing THEN 2 ELSE 0,
            !.totalFrames = AnimFrames(IF swing THEN StateAttack ELSE StateIdle)[1],
            !.frameDelay = AnimFrames(IF swing THEN StateAttack ELSE StateIdle)[2],
            !.attackSoundPlayed = swing,
            !.PlayerHealth = ph,
            !.killCount = 7 - n,
            !.monsters = SubSeq(<< StandingSlime(1, FightX - 64 * FP, SlimeGreen, 10, mt),
                                   StandingSlime(2, FightX - 38 * FP, SlimeRed, 40, 0) >>,
                                1, n)],
        GameWorld) :
        swing \in BOOLEAN, ph \in {100, 10}, mt \in {0, 2}, n \in {1, 2} }

\* the player beside the chest of GameWorld, unhurt or 10 short of it, the last
\* green slime out of reach at the other end of the floor
ChestVisits ==
    { updateCamera(
        [FreshGame EXCEPT
            !.gameState = StatePlaying, !.bgMusicPlaying = TRUE, !.introTimer = ScreenTimerCap,
            !.x = (3 * TileSize * FP) \div 2, !.y = FloorY,
            !.isGrounded = TRUE, !.coyoteTimer = CoyoteFrames,
            !.PlayerHealth = ph,
            !.killCount = 6,
            !.monsters = << StandingSlime(1, 2 * FightX - 64 * FP, SlimeGreen, 10, 0) >>],
        GameWorld) :
        ph \in {100, 90} }

\* the keys a tick can bring in each game state; keys the state does not read are
\* left out
Press(key) == [NoKeys EXCEPT ![key] = TRUE]

SelectKey == [NoKeys EXCEPT !.enter = TRUE, !.held = TRUE]

ScreenKeys == {NoKeys, Press("up"), Press("down"), SelectKey}

\* ShiftLeft goes down
ShieldKey == [NoKeys EXCEPT !.shift = TRUE, !.shiftHeld = TRUE]

PlayKeys ==
    {NoKeys, Press("left"), Press("right"), SelectKey, Press("e"), Press("esc"),
     [NoKeys EXCEPT !.jump = TRUE, !.held = TRUE], ShieldKey}

KeysFor(s) ==
    CASE s.gameState = StateIntro -> {NoKeys, SelectKey}
      [] s.gameState = StateMenu -> ScreenKeys
      [] s.gameState = StatePaused -> ScreenKeys \cup {Press("esc")}
      [] s.gameState = StateDeath -> IF s.deathTimer + 1 < 60 THEN {NoKeys} ELSE ScreenKeys
      [] OTHER -> PlayKeys

InitGame ==
    /\ tm = GameWorld
    /\ g \in GameFights \cup ChestVisits \cup {[FreshGame EXCEPT !.introTimer = t] : t \in {0, 60}}
    /\ in = NoKeys
    /\ op = "init" /\ arg = <<>> /\ ret = 0 /\ idx = <<>>
    /\ mid = <<>>
    /\ ticks = 0
    /\ pre = g /\ calls = <<>> /\ prev = NoPrev /\ gen = NoGen

\* one call of Game.Update by the engine; a game that returned Termination is not
\* updated again, and ticks counts the updates made in StatePlaying
GameUpdate ==
    /\ ~g.terminated
    /\ g.gameState = StatePlaying => ticks < MaxTicks
    /\ \E k \in KeysFor(g) :
          /\ in' = k
          /\ \E r \in {Update(g, tm, k)} :
                g' = r.g /\ tm' = r.tm /\ calls' = r.calls
    /\ ticks' = IF g.gameState = StatePlaying THEN ticks + 1 ELSE ticks
    /\ op' = "Update"
    /\ pre' = g
    /\ UNCHANGED <<arg, ret, idx, mid, prev, gen>>

NextGame == GameUpdate

SpecGame == InitGame /\ [][NextGame]_vars
-----------------------------------------------------------------------------
(* Specification of the world generation: GenerateTerrariaWorld pass by     *)
(* pass, for every noise sample and both world sizes                        *)

\* the passes of GenerateTerrariaWorld after the height field, each with the cave
\* system ahead of the mountain chamber swapped for one with the chamber first
AfterPass_ChamberFirst(pass) ==
    CASE pass = "flatten" -> "fill"
      [] pass = "fill" -> "lava"
      [] pass = "lava" -> "chamber"
      [] pass = "chamber" -> "caves"
      [] pass = "caves" -> "islands"
      [] pass = "islands" -> "features"
      [] pass = "features" -> "chests"
      [] OTHER -> "done"

\* the pass of GenerateTerrariaWorld that follows a pass
AfterPass(pass) ==
    CASE pass = "flatten" -> "fill"
      [] pass = "fill" -> "lava"
      [] pass = "lava" -> "caves"
      [] pass = "caves" -> "islands"
      [] pass = "islands" -> "features"
      [] pass = "features" -> "chamber"
      [] pass = "chamber" -> "chests"
      [] OTHER -> "done"

\* the generator on entry: the grid and the height field as make() leaves them;
\* column holds the column `at` of the grid, assigned counts the assignments to
\* MountainChamberX and MountainChamberY
NewGen(p, embedded) ==
    [stage |-> "height", profile |-> p, embedded |-> embedded, at |-> SpawnColumn,
     Cols |-> WorldCols(embedded), Rows |-> WorldRows(embedded), x |-> 0,
     surfaceHeight |-> [c \in 0..(WorldCols(embedded) - 1) |-> 0],
     preFlatten |-> [c \in 0..(WorldCols(embedded) - 1) |-> 0],
     column |-> [y \in 0..(WorldRows(embedded) - 1) |-> 0],
     MountainChamberX |-> 0, MountainChamberY |-> 0, assigned |-> 0]

InitGen ==
    /\ gen \in {NewGen(p, e) : p \in 1..NumProfiles, e \in BOOLEAN}
    /\ tm = SmallWorld(FloorGrid)
    /\ g = NewPlayer(0, 0)
    /\ in = NoKeys
    /\ op = "init" /\ arg = <<>> /\ ret = 0 /\ idx = <<>>
    /\ mid = g
    /\ ticks = 0
    /\ pre = g /\ calls = <<>> /\ prev = NoPrev

\* a pass of the generation: the game does not run meanwhile
Pass(name) ==
    /\ op' = name
    /\ UNCHANGED <<tm, g, in, arg, ret, idx, mid, ticks, pre, calls, prev>>

\* one iteration of the surface-height loop
GenHeightColumn ==
    /\ gen.stage = "height"
    /\ gen' = [gen EXCEPT
                 !.surfaceHeight[gen.x] =
                     columnHeight(gen.profile, gen.surfaceHeight, gen.x, gen.Rows),
                 !.x = gen.x + 1,
                 !.stage = IF gen.x + 1 = gen.Cols THEN "flatten" ELSE "height"]
    /\ Pass("height")

\* the spawn zone flattening
GenFlattenSpawn ==
    /\ gen.stage = "flatten"
    /\ gen' = [gen EXCEPT !.preFlatten = gen.surfaceHeight,
                          !.surfaceHeight = flattenSpawn(gen.surfaceHeight, gen.Cols),
                          !.stage = AfterPass("flatten")]
    /\ Pass("flatten")

\* the block fill, on the column followed
GenFill ==
    /\ gen.stage = "fill"
    /\ LET biome == biomes(gen.profile, gen.at)
       IN  \E surface \in SurfaceTiles(biome), dirtDepth \in DirtDepths(biome),
              stone \in StoneTiles :
               gen' = [gen EXCEPT
                         !.column = fillColumn(gen.surfaceHeight[gen.at], gen.Rows,
                                               biome, surface, dirtDepth, stone),
                         !.stage = AfterPass("fill")]
    /\ Pass("fill")

\* the lava band
GenLava ==
    /\ gen.stage = "lava"
    /\ gen' = [gen EXCEPT !.column = lavaBand(gen.column, gen.Rows),
                          !.stage = AfterPass("lava")]
    /\ Pass("lava")

\* the cave system: over the column no cave, a cavern at the least depth, a
\* cavern at the greatest depth with a stalagmite on the column, or a cavern at
\* the least depth with a stalactite on the column and a chest on it
GenCaves ==
    /\ gen.stage = "caves"
    /\ \/ \E radius \in CaveRadii : \E height \in SpikeHeights(radius) :
             gen' = [gen EXCEPT
                       !.column = IF height = 0
                                  THEN caves(gen.column, gen.Rows,
                                             gen.surfaceHeight[gen.at], radius)
                                  ELSE deepCavern(gen.column, gen.Rows, radius, height),
                       !.stage = AfterPass("caves")]
       \/ \E radius \in HangRadii :
             gen' = [gen EXCEPT
                       !.column = hungCavern(gen.column, gen.Rows,
                                             gen.surfaceHeight[gen.at], radius),
                       !.stage = AfterPass("caves")]
    /\ Pass("caves")

\* the sky islands
GenSkyIslands ==
    /\ gen.stage = "islands"
    /\ \E isl \in SkyIslands :
           gen' = [gen EXCEPT !.column = skyIslands(gen.column, isl),
                              !.stage = AfterPass("islands")]
    /\ Pass("islands")

\* the surface features
GenFeatures ==
    /\ gen.stage = "features"
    /\ LET y == gen.surfaceHeight[gen.at]
       IN  \E f \in Features(gen.column, y, biomes(gen.profile, gen.at)) :
               gen' = [gen EXCEPT !.column = surfaceFeature(gen.column, y, f),
                                  !.stage = AfterPass("features")]
    /\ Pass("features")

\* generateMountainChamber, which writes no tile of the columns 100 and 115;
\* placePathChests comes after it and writes chests in the columns 115 .. 270
GenChamber ==
    /\ gen.stage = "chamber"
    /\ gen' = [gen EXCEPT
                 !.surfaceHeight = generateMountainChamber(gen.surfaceHeight, gen.Cols),
                 !.column = chamberColumn(gen.column, gen.Rows, gen.Cols, gen.at,
                                          chamberHeight(gen.surfaceHeight, gen.Cols)),
                 !.assigned = @ + 1,
                 !.MountainChamberX = (ChamberStart(gen.Cols) + ChamberWidth \div 2) * TileSize,
                 !.MountainChamberY = (chamberHeight(gen.surfaceHeight, gen.Cols) - 2) * TileSize,
                 !.stage = IF gen.at = SpawnColumn THEN "done" ELSE AfterPass("chamber")]
    /\ Pass("chamber")

\* placePathChests, on the column followed
GenPathChests ==
    /\ gen.stage = "chests"
    /\ gen' = [gen EXCEPT
                 !.column = placePathChests(gen.column, gen.Cols, gen.Rows, gen.at,
                                            gen.surfaceHeight[gen.at]),
                 !.stage = AfterPass("chests")]
    /\ Pass("placePathChests")

NextGen ==
    \/ GenHeightColumn
    \/ GenFlattenSpawn
    \/ GenFill
    \/ GenLava
    \/ GenCaves
    \/ GenSkyIslands
    \/ GenFeatures
    \/ GenChamber

SpecGen == InitGen /\ [][NextGen]_vars

-----------------------------------------------------------------------------
(* Specification of the world generation as the first column of the path    *)
(* chests sees it                                                           *)

InitPath ==
    /\ gen \in {[NewGen(p, e) EXCEPT !.at = PathChestColumns[1]] :
                 p \in 1..NumProfiles, e \in BOOLEAN}
    /\ tm = SmallWorld(FloorGrid)
    /\ g = NewPlayer(0, 0)
    /\ in = NoKeys
    /\ op = "init" /\ arg = <<>> /\ ret = 0 /\ idx = <<>>
    /\ mid = g
    /\ ticks = 0
    /\ pre = g /\ calls = <<>> /\ prev = NoPrev

NextPath ==
    \/ GenHeightColumn
    \/ GenFlattenSpawn
    \/ GenFill
    \/ GenLava
    \/ GenCaves
    \/ GenSkyIslands
    \/ GenFeatures
    \/ GenChamber
    \/ GenPathChests

SpecPath == InitPath /\ [][NextPath]_vars
-----------------------------------------------------------------------------
(* Specification of the carving and shaping passes of GenerateTerrariaWorld: *)
(* each operation at the start points and with the draws the generation can  *)
(* give it, and the grid indices it then uses                                *)

\* columns at and next to the edges of the grid, and one in the middle
EdgeCols(cols) == {0, 1, cols \div 2, cols - 2, cols - 1}

\* the rows a cave can start on, cy = minDepth + Intn(maxDepth - minDepth) with
\* minDepth = surfaceHeight[cx] + 15 and maxDepth = Rows - 15: the least, under
\* the highest surface, and the greatest
CaveRows(rows) == {MinSurface + CaveMinDepth, rows - CaveMinDepth - 1}

\* a cave worm takes at most 80 + 119 steps of length 1 from its start
WormReach == 199

\* where a worm can be, relative to its start: at it, near it, and farthest
WalkOffsets ==
    {d \in {-WormReach, -3, 0, 3, WormReach} \X {-WormReach, -3, 0, 3, WormReach} :
        d[1] * d[1] + d[2] * d[2] <= WormReach * WormReach}

\* the second cave of a tunnel, relative to the first: less than 50 away
TunnelOffsets == {<<0, 0>>, <<49, 0>>, <<-49, 0>>, <<0, 49>>, <<30, -39>>}

NewCarve(embedded) ==
    [stage |-> "caves", embedded |-> embedded,
     Cols |-> WorldCols(embedded), Rows |-> WorldRows(embedded),
     shape |-> "none", at |-> <<>>, touched |-> {}]

InitCarve ==
    /\ gen \in {NewCarve(e) : e \in BOOLEAN}
    /\ tm = SmallWorld(FloorGrid)
    /\ g = NewPlayer(0, 0)
    /\ in = NoKeys
    /\ op = "init" /\ arg = <<>> /\ ret = 0 /\ idx = <<>>
    /\ mid = g
    /\ ticks = 0
    /\ pre = g /\ calls = <<>> /\ prev = NoPrev

\* the operation `shape` with the parameters `at` has used the indices `touched`
Carved(stage, shape, at, touched) ==
    /\ gen' = [gen EXCEPT !.stage = stage, !.shape = shape, !.at = at, !.touched = touched]
    /\ Pass(shape)

\* one step of generateSmootherCave: radius int(2.0 + 1.5 * Float64())
CarveWorm ==
    /\ gen.stage = "caves"
    /\ \E cx \in EdgeCols(gen.Cols), cy \in CaveRows(gen.Rows), d \in WalkOffsets, r \in {2, 3} :
          Carved("tunnels", "generateSmootherCave", <<cx + d[1], cy + d[2], r>>,
                 carveStamp(gen.Cols, gen.Rows, cx + d[1], cy + d[2], r))

\* generateCavern at a cave start, or as the second cavern of a large one at
\* cx + Intn(10) - 5, cy + Intn(10) - 5
CarveCavern ==
    /\ gen.stage = "caves"
    /\ \E cx \in EdgeCols(gen.Cols), cy \in CaveRows(gen.Rows),
          d \in {<<0, 0>>, <<-5, -5>>, <<4, 4>>}, radius \in {8, 19} :
          Carved("tunnels", "generateCavern", <<cx + d[1], cy + d[2], radius>>,
                 generateCavern(gen.Cols, gen.Rows, cx + d[1], cy + d[2], radius))

\* generateTunnel between two cave starts
CarveTunnel ==
    /\ gen.stage = "tunnels"
    /\ \E x1 \in EdgeCols(gen.Cols), y1 \in CaveRows(gen.Rows), d \in TunnelOffsets :
          /\ x1 + d[1] >= 0 /\ x1 + d[1] < gen.Cols
          /\ y1 + d[2] >= MinSurface + CaveMinDepth /\ y1 + d[2] < gen.Rows - CaveMinDepth
          /\ Carved("islands", "generateTunnel", <<x1, y1, x1 + d[1], y1 + d[2]>>,
                    generateTunnel(gen.Cols, gen.Rows, x1, y1, x1 + d[1], y1 + d[2]))

\* generateSkyIsland at ix = 50 + Intn(Cols-100), iy = 10 + Intn(30)
CarveSkyIsland ==
    /\ gen.stage = "islands"
    /\ \E x \in {50, gen.Cols - 51}, y \in {10, 39}, size \in IslandSizes :
          Carved("chamber", "generateSkyIsland", <<x, y, size[1], size[2]>>,
                 generateSkyIsland(gen.Cols, gen.Rows, x, y, size[1], size[2]))

\* generateMountainChamber on the highest and the lowest floor
CarveChamber ==
    /\ gen.stage = "chamber"
    /\ \E avgHeight \in {MinSurface, gen.Rows - BottomMargin} :
          Carved("done", "generateMountainChamber", <<avgHeight>>,
                 chamberCells(gen.Cols, gen.Rows, avgHeight))

NextCarve ==
    \/ CarveWorm
    \/ CarveCavern
    \/ CarveTunnel
    \/ CarveSkyIsland
    \/ CarveChamber

SpecCarve == InitCarve /\ [][NextCarve]_vars
-----------------------------------------------------------------------------
(* Specification of the sound table: the five loader goroutines NewGame      *)
(* starts, the game loop that reads g.sounds in Game.Update, and the         *)
(* sync.RWMutex soundMutex between them.  mid holds the mutex, the table and *)
(* the position of each goroutine:                                           *)
(*   loader[n]  "load"   decoding the file of sound n                        *)
(*              "lock"   player != nil, at g.soundMutex.Lock()               *)
(*              "store"  holds the lock, at g.sounds[n] = player             *)
(*              "unlock" at g.soundMutex.Unlock()                            *)
(*              "done"   returned (with or without a player)                 *)
(*   loop       "idle"   between two sections that read g.sounds             *)
(*              "read"   holds the read lock, at the reads of g.sounds       *)
(*              "unlock" at g.soundMutex.RUnlock()                           *)
(*   writer     the loader that holds the lock, or "none"                    *)
(*   readers    the number of read locks held                                *)
(*   table      the names n with g.sounds[n] != nil                          *)

\* ticks of the game loop while the loaders run
SoundTicks == 1

\* sync.RWMutex: Lock returns when nobody holds the mutex
CanLock_Unguarded(m) == TRUE

CanLock(m) == m.writer = "none" /\ m.readers = 0

\* sync.RWMutex: RLock returns when no writer holds the mutex
CanRLock(m) == m.writer = "none"

\* a fight in progress when the first sound file is still being decoded
SoundGames ==
    {[s EXCEPT !.sounds = {}, !.bgMusicPlaying = FALSE] :
        s \in {s \in GameFights :
                 /\ ~s.isAttacking /\ s.PlayerHealth = 100
                 /\ Len(s.monsters) = 1 /\ s.monsters[1].InvincibleTimer = 0}}

SoundKeys == {NoKeys, Press("right"), SelectKey}

InitSound ==
    /\ tm = GameWorld
    /\ g \in SoundGames
    /\ mid = [loader |-> [n \in AllSounds |-> "load"], loop |-> "idle",
              writer |-> "none", readers |-> 0, table |-> {}]
    /\ in = NoKeys
    /\ op = "init" /\ arg = <<>> /\ ret = 0 /\ idx = <<>>
    /\ ticks = 0
    /\ pre = g /\ calls = <<>> /\ prev = NoPrev /\ gen = NoGen

\* a goroutine other than the game loop has taken a step
LoaderStep(name, m) ==
    /\ mid' = m
    /\ op' = name
    /\ UNCHANGED <<tm, g, in, arg, ret, idx, ticks, pre, calls, prev, gen>>

\* loadAudio / loadLoopingAudio returns: a player, or nil when the file is
\* missing or does not decode, and then the goroutine ends
LoaderLoad ==
    \E n \in AllSounds, ok \in BOOLEAN :
        /\ mid.loader[n] = "load"
        /\ LoaderStep("load", [mid EXCEPT !.loader[n] = IF ok THEN "lock" ELSE "done"])

\* g.soundMutex.Lock()
LoaderLock ==
    \E n \in AllSounds :
        /\ mid.loader[n] = "lock"
        /\ CanLock(mid)
        /\ LoaderStep("Lock", [mid EXCEPT !.loader[n] = "store", !.writer = n])

\* g.sounds[n] = player
LoaderStore ==
    \E n \in AllSounds :
        /\ mid.loader[n] = "store"
        /\ LoaderStep("store", [mid EXCEPT !.loader[n] = "unlock", !.table = @ \cup {n}])

\* g.soundMutex.Unlock()
LoaderUnlock ==
    \E n \in AllSounds :
        /\ mid.loader[n] = "unlock"
        /\ LoaderStep("Unlock", [mid EXCEPT !.loader[n] = "done",
                                            !.writer = IF @ = n THEN "none" ELSE @])

\* g.soundMutex.RLock() of the game loop
LoopRLock ==
    /\ mid.loop = "idle"
    /\ ticks < SoundTicks
    /\ CanRLock(mid)
    /\ LoaderStep("RLock", [mid EXCEPT !.loop = "read", !.readers = @ + 1])

\* the reads of g.sounds in a call of Game.Update: an entry that is in the table
\* is played or paused, one that is missing is passed over
LoopUpdate ==
    /\ mid.loop = "read"
    /\ ~g.terminated
    /\ \E k \in SoundKeys :
          /\ in' = k
          /\ \E r \in {Update([g EXCEPT !.sounds = mid.table], tm, k)} :
                g' = r.g /\ tm' = r.tm /\ calls' = r.calls
    /\ mid' = [mid EXCEPT !.loop = "unlock"]
    /\ ticks' = ticks + 1
    /\ op' = "Update"
    /\ pre' = g
    /\ UNCHANGED <<arg, ret, idx, prev, gen>>

\* g.soundMutex.RUnlock() of the game loop
LoopRUnlock ==
    /\ mid.loop = "unlock"
    /\ LoaderStep("RUnlock", [mid EXCEPT !.loop = "idle", !.readers = @ - 1])

NextSound ==
    \/ LoaderLoad
    \/ LoaderLock
    \/ LoaderStore
    \/ LoaderUnlock
    \/ LoopRLock
    \/ LoopUpdate
    \/ LoopRUnlock

SpecSound == InitSound /\ [][NextSound]_vars
-----------------------------------------------------------------------------
(* Specification of the jump: updatePlayer ticks of a player that runs off a *)
(* ledge, with the Space key pressed, held and released                     *)

\* height of the ledge above the floor, in tiles
DropTiles == 5
\* ticks explored from the edge of the ledge
JumpTicks == 17

\* the row of the ledge: the player, 64 pixels tall, fits under the top of the world
LedgeRow == PlayerHitboxH \div TileSize

\* a stone ledge over the two left columns, DropTiles above a stone floor
LedgeWorld ==
    LET rows == LedgeRow + DropTiles + 1
    IN  [Cols |-> GridCols, Rows |-> rows,
         Grid |-> [y \in 0..(rows - 1) |->
                     [x \in 0..(GridCols - 1) |->
                        IF y = rows - 1 \/ (y >= LedgeRow /\ x < 2) THEN ID_Stone ELSE 0]]]

\* the player n ticks after NewGame put it at the left wall on the ledge, the
\* right arrow held all the time
RunStep(s) == updatePlayer(s, [NoKeys EXCEPT !.right = TRUE], LedgeWorld, FALSE)

RECURSIVE RunRight(_)
RunRight(n) ==
    IF n = 0
    THEN NewPlayer((PlayerHitboxW \div 2) * FP, LedgeRow * TileSize * FP)
    ELSE Once(RunStep, RunRight(n - 1))

\* ticks of running that bring the player to the edge, still on the ledge
RunLengths == {7, 8}

\* the keys of a tick, given the keys of the tick before: Space goes down
\* (jump), stays as it is, or comes up (jumpRel); no other key is touched
JumpKeys(k) ==
    IF k.held
    THEN {[NoKeys EXCEPT !.held = TRUE], [NoKeys EXCEPT !.jumpRel = TRUE]}
    ELSE {NoKeys, [NoKeys EXCEPT !.jump = TRUE, !.held = TRUE]}

InitJump ==
    /\ tm = LedgeWorld
    /\ g \in {RunRight(n) : n \in RunLengths}
    /\ in = NoKeys
    /\ op = "init" /\ arg = <<>> /\ ret = 0 /\ idx = <<>>
    /\ mid = g
    /\ ticks = 0
    /\ pre = g /\ calls = <<>> /\ prev = NoPrev /\ gen = NoGen

\* one updatePlayer tick; prev keeps the tick before it
JumpTick ==
    /\ ticks < JumpTicks
    /\ \E k \in JumpKeys(in) :
          /\ in' = k
          /\ g' = updatePlayer(g, k, tm, FALSE)
          /\ mid' = afterMoveY(g, k, tm, FALSE)
    /\ op' = "updatePlayer"
    /\ ticks' = ticks + 1
    /\ pre' = g
    /\ prev' = [op |-> op, arg |-> in, pre |-> pre]
    /\ UNCHANGED <<tm, arg, ret, idx, calls, gen>>

NextJump == JumpTick

SpecJump == InitJump /\ [][NextJump]_vars
-----------------------------------------------------------------------------
(* Specification of the action locks: updatePlayer ticks of a player who     *)
(* stands on the floor and presses the action keys in any combination       *)

\* updatePlayer ticks of a run
LockTicks == 4

\* the action keys of a tick after a tick with keys k: Enter, ShiftLeft and E can
\* each be just pressed; ShiftLeft is down when it was just pressed, and can stay
\* down when it was down in the tick before
ActionKeys(k) ==
    {[NoKeys EXCEPT !.enter = a, !.held = a, !.shift = p, !.shiftHeld = h, !.e = d] :
        a \in BOOLEAN, d \in BOOLEAN,
        p \in IF k.shiftHeld THEN {FALSE} ELSE BOOLEAN,
        h \in BOOLEAN} \ {c \in [DOMAIN NoKeys -> BOOLEAN] :
                              \/ c.shift /\ ~c.shiftHeld
                              \/ c.shiftHeld /\ ~c.shift /\ ~k.shiftHeld}

InitLocks ==
    /\ tm = SmallWorld(FloorGrid)
    /\ g = [NewPlayer(FightX, FloorY) EXCEPT !.isGrounded = TRUE]
    /\ in = NoKeys
    /\ op = "init" /\ arg = <<>> /\ ret = 0 /\ idx = <<>>
    /\ mid = g
    /\ ticks = 0
    /\ pre = g /\ calls = <<>> /\ prev = NoPrev /\ gen = NoGen

LockTick ==
    /\ ticks < LockTicks
    /\ \E k \in ActionKeys(in) :
          /\ in' = k
          /\ g' = updatePlayer(g, k, tm, FALSE)
    /\ op' = "updatePlayer"
    /\ ticks' = ticks + 1
    /\ pre' = g
    /\ UNCHANGED <<tm, arg, ret, idx, mid, calls, prev, gen>>

NextLocks == LockTick

SpecLocks == InitLocks /\ [][NextLocks]_vars

-----------------------------------------------------------------------------
(* Specification of one slime: Monster.Update ticks and one sword hit        *)
(* (Monster.TakeDamage), at any moment, on a slime in a walled pit, the      *)
(* player standing still near it or far from it.  arg holds the direction   *)
(* of the hit once it has landed, ret counts the updates since.             *)

\* size of the pit, in tiles, and the Monster.Update calls of a run
PitCols == 48
PitRows == 13
MonsterTicks == 62

\* a stone floor with a stone wall at either end
PitWorld ==
    [Cols |-> PitCols, Rows |-> PitRows,
     Grid |-> [y \in 0..(PitRows - 1) |-> [x \in 0..(PitCols - 1) |->
                 IF y = PitRows - 1 \/ x = 0 \/ x = PitCols - 1 THEN ID_Stone ELSE 0]]]

PitFloorY == (PitRows - 1) * TileSize * FP

\* a slime at rest on the floor of the pit whose jump cooldown has run for
\* `timer` ticks
RestingSlime(x, variant, timer) ==
    [NewSlime(1, x, PitFloorY - 128 * FP, variant) EXCEPT !.JumpTimer = timer]

\* the player stands at the left wall; the slime rests within detection range or
\* out of it
PitGames ==
    { updateCamera(
        [NewGame(40 * FP, PitFloorY) EXCEPT
            !.gameState = StatePlaying, !.isGrounded = TRUE, !.coyoteTimer = CoyoteFrames,
            !.killCount = 6,
            !.monsters = << RestingSlime(x * FP, variant, timer) >>],
        PitWorld) :
        x \in {60, 600}, variant \in {SlimeGreen, SlimeBlue, SlimeRed},
        timer \in {0, 60} }

InitMonster ==
    /\ tm = PitWorld
    /\ g \in PitGames
    /\ in = NoKeys
    /\ op = "init" /\ arg = <<>> /\ ret = 0 /\ idx = <<>>
    /\ mid = <<>>
    /\ ticks = 0
    /\ pre = g /\ calls = <<>> /\ prev = NoPrev /\ gen = NoGen

\* Monster.Update of the slime
MonsterTick ==
    /\ ticks < MonsterTicks
    /\ g' = [g EXCEPT !.monsters[1] = MonsterUpdate(@, g, tm)]
    /\ ticks' = ticks + 1
    /\ ret' = ret + 1
    /\ op' = "Monster.Update"
    /\ pre' = g
    /\ UNCHANGED <<tm, in, arg, idx, mid, calls, prev, gen>>

\* Monster.TakeDamage of the slime, hit by the sword from the left or the right
MonsterHit ==
    /\ arg = <<>>
    /\ \E dir \in {-1, 1} :
          /\ g' = [g EXCEPT !.monsters[1] = TakeDamage(@, AttackDamage, AttackKnockback * dir)]
          /\ arg' = <<dir>>
    /\ ret' = 0
    /\ op' = "TakeDamage"
    /\ pre' = g
    /\ UNCHANGED <<tm, in, idx, mid, ticks, calls, prev, gen>>

NextMonster == MonsterTick \/ MonsterHit

SpecMonster == InitMonster /\ [][NextMonster]_vars

-----------------------------------------------------------------------------
(* Specification of the worlds of one run: NewGame generates the first world *)
(* and places the slimes, restartGame generates the next and places them    *)
(* again.  The generation is followed on a column of the chamber floor;     *)
(* gen.MountainChamberX and gen.MountainChamberY are the package variables, *)
(* which outlive a world; ticks counts the restarts and pre holds the Game  *)
(* as the world before left it.                                             *)

\* noise samples a run can start with, and the restarts of a run
WorldProfiles == 2
Restarts == 1

\* the columns of the chamber floor followed: one with a pillar, and the middle
\* one, which in the narrow world is on the path of the chests
FloorColumns(cols) == {ChamberStart(cols) + 8, ChamberStart(cols) + ChamberWidth \div 2}

InitWorld ==
    /\ gen \in {[NewGen(p, e) EXCEPT !.at = c] :
                 p \in 1..WorldProfiles, e \in BOOLEAN,
                 c \in FloorColumns(WorldCols(TRUE)) \cup FloorColumns(WorldCols(FALSE))}
    /\ gen.at \in FloorColumns(gen.Cols)
    /\ tm = SmallWorld(FloorGrid)
    /\ g = [NewGame(1600 * FP, 0) EXCEPT !.embedded = gen.embedded]
    /\ in = NoKeys
    /\ op = "init" /\ arg = <<>> /\ ret = 0 /\ idx = <<>>
    /\ mid = <<>>
    /\ ticks = 0
    /\ pre = g /\ calls = <<>> /\ prev = NoPrev

\* the slimes NewGame and restartGame place once GenerateTerrariaWorld has
\* returned, and the quest state restartGame resets
WorldSpawn ==
    /\ gen.stage = "done"
    /\ \E a \in {[g EXCEPT !.MountainChamberX = gen.MountainChamberX * FP,
                           !.MountainChamberY = gen.MountainChamberY * FP]} :
          g' = [a EXCEPT !.questCompleted = FALSE, !.bigChestSpawned = FALSE,
                         !.showReward = FALSE,
                         !.monsters = SpawnSlimes(a), !.killCount = 0]
    /\ gen' = [gen EXCEPT !.stage = "spawned"]
    /\ op' = "spawn"
    /\ pre' = g
    /\ UNCHANGED <<tm, in, arg, ret, idx, mid, ticks, calls, prev>>

\* the head of restartGame: the player is reset and GenerateTerrariaWorld is
\* entered, with another noise sample; the package variables keep their values
WorldRestart ==
    /\ gen.stage = "spawned"
    /\ ticks < Restarts
    /\ g' = [g EXCEPT !.x = 1600 * FP, !.y = 0, !.vx = 0, !.vy = 0,
                      !.PlayerHealth = g.PlayerMaxHealth]
    /\ gen' = [NewGen(gen.profile + 1, gen.embedded) EXCEPT
                  !.at = gen.at,
                  !.MountainChamberX = gen.MountainChamberX,
                  !.MountainChamberY = gen.MountainChamberY]
    /\ ticks' = ticks + 1
    /\ op' = "restartGame"
    /\ UNCHANGED <<tm, in, arg, ret, idx, mid, pre, calls, prev>>

NextWorld ==
    \/ GenHeightColumn
    \/ GenFlattenSpawn
    \/ GenFill
    \/ GenLava
    \/ GenCaves
    \/ GenSkyIslands
    \/ GenFeatures
    \/ GenChamber
    \/ GenPathChests
    \/ WorldSpawn
    \/ WorldRestart

SpecWorld == InitWorld /\ [][NextWorld]_vars

-----------------------------------------------------------------------------
(* Specification of one swing of the sword: Game.Update ticks of a fight in  *)
(* the pit, through the pause screen and the menu.  ticks counts the        *)
(* updates made in StatePlaying; ret counts how often the health of the     *)
(* slime went down since isAttacking was last set; idx holds one entry for  *)
(* every time the fight was paused.                                         *)

\* the updates in StatePlaying of a run, and the times Escape pauses the fight
SwingTicks == 34
SwingPauses == 1

\* the player stands in the pit, one tick before the hit frame of a swing, a red
\* slime (the eighth monster made) in reach of the sword; the intro dialogue is over
\* (embedded, the reward dialogue is not shown either)
SwingGames ==
    { updateCamera(
        [NewGame(300 * FP, PitFloorY) EXCEPT
            !.gameState = StatePlaying, !.introTimer = ScreenTimerCap,
            !.sounds = AllSounds, !.bgMusicPlaying = TRUE,
            !.MountainChamberX = 300 * FP, !.MountainChamberY = PitFloorY - 2 * TileSize * FP,
            !.isGrounded = TRUE, !.coyoteTimer = CoyoteFrames,
            !.isAttacking = TRUE, !.attackSoundPlayed = FALSE,
            !.currentState = StateAttack, !.currentFrame = 1,
            !.frameCounter = AnimFrames(StateAttack)[2] - 1,
            !.totalFrames = AnimFrames(StateAttack)[1],
            !.frameDelay = AnimFrames(StateAttack)[2],
            !.killCount = 6,
            !.monsters = << [NewSlime(8, (300 - 64) * FP, PitFloorY - 128 * FP, SlimeRed)
                               EXCEPT !.JumpTimer = timer] >>],
        PitWorld) : timer \in {0, 30} }

\* the keys of a tick of the fight: none or Escape; on the screens the navigation
\* keys and Enter
SwingKeys(s) ==
    IF s.gameState = StatePlaying
    THEN {NoKeys} \cup (IF Len(idx) < SwingPauses THEN {Press("esc")} ELSE {})
    ELSE KeysFor(s)

InitSwing ==
    /\ tm = PitWorld
    /\ g \in SwingGames
    /\ in = NoKeys
    /\ op = "init" /\ arg = <<>> /\ ret = 0 /\ idx = <<>>
    /\ mid = <<>>
    /\ ticks = 0
    /\ pre = g /\ calls = <<>> /\ prev = NoPrev /\ gen = NoGen

\* the health of the slime went down in the step from s to u
SlimeHurt(s, u) ==
    /\ Len(s.monsters) > 0 /\ Len(u.monsters) > 0
    /\ u.monsters[1].id = s.monsters[1].id
    /\ u.monsters[1].Health < s.monsters[1].Health

\* the player tick of the Update of s clears isAttacking: the swing is over,
\* whether or not Enter starts the next at once
SwingEnds(s) ==
    /\ s.gameState = StatePlaying /\ ~s.showReward /\ ~s.showPalette
    /\ ~s.dialogueSystem.Active
    /\ s.isAttacking /\ s.currentFrame >= s.totalFrames - 1

\* one call of Game.Update by the engine
SwingUpdate ==
    /\ ~g.terminated
    /\ g.gameState = StatePlaying => ticks < SwingTicks
    /\ \E k \in SwingKeys(g) :
          /\ in' = k
          /\ \E r \in {Update(g, tm, k)} :
                /\ g' = r.g /\ tm' = r.tm /\ calls' = r.calls
                /\ ret' = IF ~r.g.isAttacking THEN 0
                          ELSE (IF ~g.isAttacking \/ SwingEnds(g) THEN 0 ELSE ret)
                               + (IF SlimeHurt(g, r.g) THEN 1 ELSE 0)
    /\ ticks' = IF g.gameState = StatePlaying THEN ticks + 1 ELSE ticks
    /\ op' = "Update"
    /\ pre' = g
    /\ idx' = IF g.gameState = StatePlaying /\ in'.esc THEN Append(idx, ticks) ELSE idx
    /\ UNCHANGED <<arg, mid, prev, gen>>

NextSwing == SwingUpdate

SpecSwing == InitSwing /\ [][NextSwing]_vars

-----------------------------------------------------------------------------
(* Specification of repeated jumps: player ticks (updateInvincibility and    *)
(* updatePlayer) in a low corridor, with the Space key pressed, held and     *)
(* released, and a monster's touch (PlayerTakeDamage) at any moment.  arg    *)
(* holds the jumps executed and whether a touch came in mid-air after the   *)
(* first; ret is 1 when the player has ended a tick grounded since the last *)
(* jump.                                                                    *)

\* player ticks of a run
AirTicks == 13

\* a stone floor and a stone ceiling one tile above the standing player's head
CorridorRows == PlayerHitboxH \div TileSize + 3

CorridorWorld ==
    [Cols |-> GridCols, Rows |-> CorridorRows,
     Grid |-> [y \in 0..(CorridorRows - 1) |-> [x \in 0..(GridCols - 1) |->
                 IF y = 0 \/ y = CorridorRows - 1 THEN ID_Stone ELSE 0]]]

InitAir ==
    /\ tm = CorridorWorld
    /\ g = [NewGame(FightX, (CorridorRows - 1) * TileSize * FP) EXCEPT
               !.gameState = StatePlaying, !.isGrounded = TRUE]
    /\ in = NoKeys
    /\ op = "init" /\ arg = <<0, FALSE>> /\ ret = 1 /\ idx = <<>>
    /\ mid = g
    /\ ticks = 0
    /\ pre = g /\ calls = <<>> /\ prev = NoPrev /\ gen = NoGen

\* one player tick
AirTick ==
    /\ ticks < AirTicks
    /\ \E k \in JumpKeys(in) :
          /\ in' = k
          /\ \E a \in {updateInvincibility(g)} :
                /\ g' = updatePlayer(a, k, tm, FALSE)
                /\ mid' = afterMoveY(a, k, tm, FALSE)
    /\ arg' = IF mid'.vy = JumpStrength + Gravity THEN <<arg[1] + 1, arg[2]>> ELSE arg
    /\ ret' = IF mid'.vy = JumpStrength + Gravity THEN 0
              ELSE IF g'.isGrounded THEN 1 ELSE ret
    /\ op' = "updatePlayer"
    /\ ticks' = ticks + 1
    /\ pre' = g
    /\ UNCHANGED <<tm, idx, calls, prev, gen>>

\* the touch of a green slime, from the left or the right
AirHit ==
    /\ op = "updatePlayer"
    /\ \E dir \in {-1, 1} :
          g' = PlayerTakeDamage(g, SlimeStats(SlimeGreen)[2], dir * TouchKnockback)
    /\ arg' = <<arg[1], arg[2] \/ (arg[1] = 1 /\ ret = 0 /\ g.PlayerInvincibleTimer = 0)>>
    /\ op' = "PlayerTakeDamage"
    /\ pre' = g
    /\ UNCHANGED <<tm, in, ret, idx, mid, ticks, calls, prev, gen>>

NextAir == AirTick \/ AirHit

SpecAir == InitAir /\ [][NextAir]_vars

-----------------------------------------------------------------------------
(* Specification of the lock protocol on soundMutex: the game loop's calls   *)
(* of RLock and RUnlock within each Game.Update, one by one, interleaved     *)
(* with the five loader goroutines.  mid holds                               *)
(*   loader[n]  "load"   decoding the file, before g.soundMutex.Lock()       *)
(*              "wait"   in Lock(), announced, waiting for the readers       *)
(*              "store"  holds the lock, at g.sounds[n] = player             *)
(*              "unlock" at g.soundMutex.Unlock()                            *)
(*              "done"   returned (at once when the file does not decode)    *)
(*   writer     the loader that is in Lock() or holds the lock, or "none"    *)
(*   readers    the number of read locks held                                *)
(*   table      the names n with g.sounds[n] != nil                          *)
(*   prog       the mutex calls the running Update has still to make         *)
(*   inCall     an Update call is running                                    *)
(* arg is the set of sounds whose files decode                               *)

\* calls of Game.Update while the loaders run
MutexTicks == 1

\* sync.RWMutex: Lock() announces the writer once no other writer is in Lock()
\* or holds the mutex, and returns when the readers have left; RLock() returns
\* when no writer is announced (CanRLock)
CanAnnounce(m) == m.writer = "none"

ReadersGone(m) == m.readers = 0

\* the last slime one hit from death on the hit frame of a swing, about to hop
LastFight ==
    {[s EXCEPT !.attackSoundPlayed = FALSE, !.monsters[1].JumpTimer = 60] :
        s \in {s \in GameFights :
                 /\ s.isAttacking /\ s.PlayerHealth = 100
                 /\ Len(s.monsters) = 1 /\ s.monsters[1].InvincibleTimer = 0}}

\* the games the protocol is followed in: the last fight, also paused, lost or
\* won with the reward on the screen; the player beside the chest; the menu.
\* No sound is loaded yet
MutexGames ==
    {[s EXCEPT !.sounds = {}, !.bgMusicPlaying = FALSE] :
        s \in LastFight
            \cup {s \in ChestVisits : s.PlayerHealth = 90}
            \cup {[FreshGame EXCEPT !.gameState = StateMenu, !.introTimer = ScreenTimerCap]}
            \cup {[s EXCEPT !.gameState = StatePaused, !.pauseOption = o] :
                     s \in LastFight, o \in {0, 2}}
            \cup {[s EXCEPT !.gameState = StateDeath, !.PlayerHealth = 0,
                            !.deathTimer = 60, !.deathOption = o] :
                     s \in LastFight, o \in {0, 1}}
            \cup {[s EXCEPT !.showReward = TRUE, !.questCompleted = TRUE,
                            !.bigChestSpawned = TRUE, !.killCount = 7,
                            !.monsters = <<>>] : s \in LastFight}}

MutexKeys(s) ==
    IF s.gameState = StatePlaying
    THEN {NoKeys, Press("e"), Press("esc"), Press("m")}
    ELSE {NoKeys, SelectKey}

\* the files that decode: the music and the chest sound, or the other three; the
\* goroutine of a file that does not decode returns without touching the mutex
Decodable == {{"background", "chest"}, {"running", "attack", "slime"}}

InitMutex ==
    /\ tm = GameWorld
    /\ g \in MutexGames
    /\ arg \in Decodable
    /\ mid = [loader |-> [n \in AllSounds |-> IF n \in arg THEN "load" ELSE "done"],
              writer |-> "none", readers |-> 0,
              table |-> {}, prog |-> <<>>, inCall |-> FALSE]
    /\ in = NoKeys
    /\ op = "init" /\ ret = 0 /\ idx = <<>>
    /\ ticks = 0
    /\ pre = g /\ calls = <<>> /\ prev = NoPrev /\ gen = NoGen

\* a step that leaves the game as it is
MutexStep(name, m) ==
    /\ mid' = m
    /\ op' = name
    /\ UNCHANGED <<tm, g, in, arg, ret, idx, ticks, pre, calls, prev, gen>>

\* loadAudio has returned a player and the goroutine enters g.soundMutex.Lock()
MutexLoad(n) ==
    /\ mid.loader[n] = "load"
    /\ CanAnnounce(mid)
    /\ MutexStep("Lock", [mid EXCEPT !.loader[n] = "wait", !.writer = n])

\* g.soundMutex.Lock() returns
MutexLocked(n) ==
    /\ mid.loader[n] = "wait"
    /\ ReadersGone(mid)
    /\ MutexStep("Locked", [mid EXCEPT !.loader[n] = "store"])

\* g.sounds[n] = player
MutexStore(n) ==
    /\ mid.loader[n] = "store"
    /\ MutexStep("store", [mid EXCEPT !.loader[n] = "unlock", !.table = @ \cup {n}])

\* g.soundMutex.Unlock()
MutexUnlock(n) ==
    /\ mid.loader[n] = "unlock"
    /\ MutexStep("Unlock", [mid EXCEPT !.loader[n] = "done", !.writer = "none"])

\* the steps of the loader goroutine of sound n
Loader(n) == MutexLoad(n) \/ MutexLocked(n) \/ MutexStore(n) \/ MutexUnlock(n)

\* the engine calls Game.Update: the calls on soundMutex it is going to make,
\* and the game as the call leaves it with the sounds that are in the table
MutexCall ==
    /\ ~mid.inCall
    /\ ticks < MutexTicks
    /\ ~g.terminated
    /\ \E k \in MutexKeys(g) :
          /\ in' = k
          /\ \E r \in {Update([g EXCEPT !.sounds = mid.table], tm, k)} :
                /\ g' = r.g /\ tm' = r.tm /\ calls' = r.calls
                /\ mid' = [mid EXCEPT !.prog = r.locks, !.inCall = TRUE]
    /\ op' = "Update"
    /\ pre' = g
    /\ UNCHANGED <<arg, ret, idx, ticks, prev, gen>>

\* g.soundMutex.RLock() of the game loop
MutexRLock ==
    /\ mid.inCall /\ mid.prog # <<>> /\ Head(mid.prog)[1] = "RLock"
    /\ CanRLock(mid)
    /\ MutexStep("RLock", [mid EXCEPT !.prog = Tail(@), !.readers = @ + 1])

\* g.soundMutex.RUnlock() of the game loop
MutexRUnlock ==
    /\ mid.inCall /\ mid.prog # <<>> /\ Head(mid.prog)[1] = "RUnlock"
    /\ MutexStep("RUnlock", [mid EXCEPT !.prog = Tail(@), !.readers = @ - 1])

\* Game.Update returns
MutexReturn ==
    /\ mid.inCall /\ mid.prog = <<>>
    /\ mid' = [mid EXCEPT !.inCall = FALSE]
    /\ ticks' = ticks + 1
    /\ op' = "return"
    /\ UNCHANGED <<tm, g, in, arg, ret, idx, pre, calls, prev, gen>>

\* the steps of the game loop within a call of Game.Update
Loop == MutexRLock \/ MutexRUnlock \/ MutexReturn

NextMutex ==
    \/ \E n \in AllSounds : MutexLoad(n)
    \/ \E n \in AllSounds : MutexLocked(n)
    \/ \E n \in AllSounds : MutexStore(n)
    \/ \E n \in AllSounds : MutexUnlock(n)
    \/ MutexCall
    \/ MutexRLock
    \/ MutexRUnlock
    \/ MutexReturn

\* every goroutine that can take a step is scheduled in the end; the engine
\* need not call Update again
SpecMutex ==
    /\ InitMutex /\ [][NextMutex]_vars
    /\ WF_vars(Loop)
    /\ \A n \in AllSounds : WF_vars(Loader(n))
-----------------------------------------------------------------------------
(* Claims about the query surface (SpecQuery) *)

NonSolidCodes == {0, 220, 296, 600, 142, 162}

\* C1: GetTile(x, y) with (x, y) outside [0,Cols) x [0,Rows) returns 0 without
\* indexing Grid, and that result is not solid; inside the grid it reads exactly
\* Grid[y][x] and returns it.
C1_GetTileTotal ==
    op = "GetTile" =>
        LET x == arg[1]
            y == arg[2]
        IN  IF x < 0 \/ x >= tm.Cols \/ y < 0 \/ y >= tm.Rows
            THEN ret = 0 /\ idx = <<>> /\ ~IsSolid(ret)
            ELSE idx = <<y, x>> /\ ret = tm.Grid[y][x]

\* a query one column past the right edge was answered with air
C1_Witness == op = "GetTile" /\ arg[1] = tm.Cols /\ arg[2] \in 0..(tm.Rows - 1) /\ ret = 0

\* C2: IsSolid(t) is FALSE exactly for 0, 220, 296, 600, 142 and 162, whatever the
\* world and whatever was queried before.
C2_IsSolidTable == op = "IsSolid" => ret = (arg[1] \notin NonSolidCodes)

\* lava was classified, as not solid
C2_Witness == op = "IsSolid" /\ arg[1] = 162 /\ ret = FALSE

-----------------------------------------------------------------------------
(* Claims about the player's physics (SpecPhys) *)

\* the tile row of the feet after the Y move
MidBottom == TileOf(mid.y)

\* a tile under the left or right foot column is solid after the Y move
MidOnSolid ==
    SolidAt(tm, FootLeft(mid), MidBottom) \/ SolidAt(tm, FootRight(mid), MidBottom)

\* C3: a tick in which the player moves down (vy >= 0 after gravity) onto a solid
\* tile under a foot column ends with vy = 0, isGrounded and y exactly at the top
\* boundary of that tile.
C3_Landing ==
    (op = "updatePlayer" /\ mid.vy >= 0 /\ MidOnSolid) =>
        (g.vy = 0 /\ g.isGrounded /\ g.y = MidBottom * TileSize * FP)

\* the player started less than one gravity tick above the floor and was put on it
C3_Witness ==
    /\ op = "updatePlayer" /\ ticks = 1
    /\ mid.vy = Gravity /\ mid.y > (GridRows - 1) * TileSize * FP /\ MidOnSolid
    /\ g.isGrounded /\ g.y = (GridRows - 1) * TileSize * FP

\* C9: the player's hitbox never overlaps a solid tile.
C9_NoTunnel == ~InsideSolid(g, tm)


-----------------------------------------------------------------------------
(* Claims about damage and combat (SpecCombat) *)

\* the monster a TakeDamage or Monster.Update call was made on, before and after
CalledBefore == pre.monsters[arg[1]]
CalledAfter == g.monsters[arg[1]]

\* the last two steps were TakeDamage calls on the same monster
TwoMonsterHits ==
    op = "TakeDamage" /\ prev.op = "TakeDamage" /\ prev.arg[1] = arg[1]

\* the last two steps were PlayerTakeDamage calls
TwoPlayerHits == op = "PlayerTakeDamage" /\ prev.op = "PlayerTakeDamage"

\* the damage PlayerTakeDamage(amount) deals to a player who may be protecting
Dealt(s, amount) == IF s.isProtecting THEN amount \div 5 ELSE amount

\* C4: a damage call on an actor whose invincibility timer is > 0 changes nothing
\* (health, velocity, knockback, timer), for Monster.TakeDamage and for
\* Game.PlayerTakeDamage; so of two damage calls in immediate succession on an
\* actor that could be hurt, only the first changes health, and it starts the
\* 30-tick (monster) or 60-tick (player) window.
C4_InvincibilityGate ==
    /\ (op = "TakeDamage" /\ CalledBefore.InvincibleTimer > 0) => g = pre
    /\ (op = "PlayerTakeDamage" /\ pre.PlayerInvincibleTimer > 0) => g = pre
    /\ (TwoMonsterHits /\ prev.pre.monsters[arg[1]].InvincibleTimer = 0) =>
           /\ CalledAfter.Health = prev.pre.monsters[arg[1]].Health - prev.arg[2]
           /\ CalledAfter.InvincibleTimer = MonsterInvincibleTicks
           /\ CalledAfter = CalledBefore
    /\ (TwoPlayerHits /\ prev.pre.PlayerInvincibleTimer = 0) =>
           /\ g.PlayerHealth =
                  Max(0, prev.pre.PlayerHealth - Dealt(prev.pre, prev.arg[1]))
           /\ g.PlayerInvincibleTimer = PlayerInvincibleTicks
           /\ g = pre

\* a slime with health 20 was hit for 10 twice in a row and ended at 10
C4_Witness ==
    /\ TwoMonsterHits
    /\ prev.pre.monsters[arg[1]].Health = 20
    /\ prev.pre.monsters[arg[1]].InvincibleTimer = 0
    /\ prev.arg[2] = 10 /\ arg[2] = 10
    /\ CalledAfter.Health = 10

\* the monsters of a Game that are dead, by identity
DeadIds(s) == {s.monsters[i].id : i \in {j \in 1..Len(s.monsters) : s.monsters[j].Health <= 0}}

\* C5: Monster.Update on a monster with Health <= 0 changes nothing; and in
\* updateMonstersAndCombat no hitbox overlap test involves a monster whose Health
\* is <= 0 at the time of the test, be it dead before the call (it is dropped
\* from g.monsters first) or killed by the player's attack earlier in the same
\* call; a call never changes a monster that was dead before it.
C5_DeadMonsterInert ==
    /\ (op = "Monster.Update" /\ CalledBefore.Health <= 0) => g = pre
    /\ op = "updateMonstersAndCombat" =>
           /\ \A k \in 1..Len(calls) :
                  calls[k].health > 0 /\ calls[k].id \notin DeadIds(pre)
           /\ \A i \in 1..Len(g.monsters) : g.monsters[i].id \notin DeadIds(pre)

\* a slime standing on the unprotected, vulnerable player was killed by the sword
\* in this call, and the player's health is what it was
C5_Witness ==
    /\ op = "updateMonstersAndCombat"
    /\ pre.PlayerInvincibleTimer = 0
    /\ \E i \in 1..Len(g.monsters) :
          /\ g.monsters[i].Health <= 0
          /\ Overlaps(getPlayerBodyHitbox(g), getMonsterBodyHitbox(g.monsters[i]))
          /\ \A j \in 1..Len(g.monsters) :
                 j # i => ~Overlaps(getPlayerBodyHitbox(g), getMonsterBodyHitbox(g.monsters[j]))
    /\ g.PlayerHealth = pre.PlayerHealth
    /\ g.killCount = pre.killCount + 1

-----------------------------------------------------------------------------
(* Claims about the game-state machine (SpecGame) *)

\* the functions of a tick that move the player or the monsters or fight
Gameplay == {"updatePlayer", "updateMonstersAndCombat"}

\* the last step was an Update call that began in game state st
UpdatedIn(st) == op = "Update" /\ pre.gameState = st

\* C10: an Update call that begins in StatePlaying and ends with PlayerHealth <= 0
\* ends in StateDeath, whether or not Escape was pressed; and an Update call that
\* begins in StateDeath runs no player physics, monster update or combat.
C10_DeathTransition ==
    /\ (UpdatedIn(StatePlaying) /\ g.PlayerHealth <= 0) => g.gameState = StateDeath
    /\ UpdatedIn(StateDeath) => \A n \in 1..Len(calls) : calls[n] \notin Gameplay

\* the cells of the grid that differ between the tilemaps t and u
ChangedCells(t, u) ==
    {c \in (0..(t.Rows - 1)) \X (0..(t.Cols - 1)) : t.Grid[c[1]][c[2]] # u.Grid[c[1]][c[2]]}

\* C11: a Game.Update call that begins in StatePlaying leaves Rows and Cols as
\* they are and changes at most one cell of the grid: a cell that held ID_Chest,
\* which becomes 0, within one tile of the player's tile, in a tick with E pressed
\* (breakTilesInRect, the other writer of the grid, has no caller)
C11_GridFrame ==
    [][(op' = "Update" /\ g.gameState = StatePlaying) =>
          /\ tm'.Cols = tm.Cols /\ tm'.Rows = tm.Rows
          /\ Cardinality(ChangedCells(tm, tm')) <= 1
          /\ \A c \in ChangedCells(tm, tm') :
                /\ tm.Grid[c[1]][c[2]] = ID_Chest
                /\ tm'.Grid[c[1]][c[2]] = 0
                /\ in'.e
                /\ Abs(c[2] - TileOf(g'.x)) <= 1
                /\ Abs(c[1] - TileOf(g'.y)) <= 1]_vars

\* a tick with E pressed has taken the chest of GameWorld from the tile beside it
C11_Witness ==
    /\ op = "Update" /\ pre.gameState = StatePlaying /\ in.e
    /\ GameWorld.Grid[GridRows - 2][0] = ID_Chest
    /\ tm.Grid[GridRows - 2][0] = 0
    /\ TileOf(g.x) = 1

\* the player as the updatePlayer call of the Update about to be made leaves it
PlayerTicked(k) == updatePlayer(updateInvincibility(handleDebugInputs(g, k)), k, tm, FALSE)

\* the Update just made has run a player tick
RanPlayerTick ==
    /\ op' = "Update" /\ g.gameState = StatePlaying
    /\ ~g.dialogueSystem.Active
    /\ \E i \in DOMAIN calls' : calls'[i] = "updatePlayer"

\* C17: every player tick, whatever the keys and the knockbacks before it, ends
\* with a horizontal speed of at most MaxSpeedX and has moved the player by at
\* most MaxSpeedX horizontally
C17_SpeedClamp ==
    [][RanPlayerTick =>
          /\ Abs(PlayerTicked(in').vx) <= MaxSpeedX
          /\ Abs(PlayerTicked(in').x - g.x) <= MaxSpeedX]_vars

\* the monsters of a Game that are alive, by identity
AliveIds(s) == {s.monsters[i].id : i \in {j \in 1..Len(s.monsters) : s.monsters[j].Health > 0}}

\* the Update about to be made restarts the game
Restarts_Game == \E i \in DOMAIN calls' : calls'[i] = "restartGame"

\* C25: at the end of every tick killCount plus the number of living monsters is
\* 7; an Update that does not restart the game adds to killCount the number of
\* monsters that died in it, and a restart sets it to 0 with seven living
\* monsters; the sacred chest appears (questCompleted, bigChestSpawned, at the
\* chamber anchor) in the Update in which killCount reaches 7, never before, and
\* stays until a restart
C25_KillAccounting ==
    /\ [](/\ g.killCount + Cardinality(AliveIds(g)) = 7
          /\ g.bigChestSpawned => g.killCount = 7 /\ g.questCompleted
          /\ g.killCount = 7 => g.bigChestSpawned
          /\ g.bigChestSpawned =>
                g.bigChestX = g.MountainChamberX /\ g.bigChestY = g.MountainChamberY)
    /\ [][op' = "Update" =>
            /\ ~Restarts_Game =>
                  /\ AliveIds(g') \subseteq AliveIds(g)
                  /\ g'.killCount = g.killCount + Cardinality(AliveIds(g) \ AliveIds(g'))
                  /\ g.bigChestSpawned => g'.bigChestSpawned
            /\ Restarts_Game =>
                  g'.killCount = 0 /\ Cardinality(AliveIds(g')) = 7 /\ ~g'.bigChestSpawned]_vars

\* the seventh slime has died in this Update and the sacred chest is there
C25_Witness ==
    /\ op = "Update" /\ pre.gameState = StatePlaying
    /\ pre.killCount = 6 /\ Cardinality(AliveIds(pre)) = 1
    /\ g.killCount = 7 /\ AliveIds(g) = {}
    /\ ~pre.bigChestSpawned /\ g.bigChestSpawned /\ g.questCompleted
    /\ g.bigChestX = g.MountainChamberX /\ g.bigChestY = g.MountainChamberY

\* the health after the chest of the Update about to be made, if it takes one
Healed ==
    IF ChangedCells(tm, tm') # {} /\ g.PlayerHealth < g.PlayerMaxHealth
    THEN Min(g.PlayerHealth + 20, g.PlayerMaxHealth)
    ELSE g.PlayerHealth

\* C28: PlayerHealth is always between 0 and PlayerMaxHealth; an Update changes
\* it only by a chest, which adds 20 up to PlayerMaxHealth and adds nothing to
\* health at the maximum, by the damage of one monster, a fifth of it behind the
\* shield, down to 0 at least, or by a restart, which sets it to PlayerMaxHealth
C28_HealthBounds ==
    /\ [](g.PlayerHealth >= 0 /\ g.PlayerHealth <= g.PlayerMaxHealth)
    /\ [][op' = "Update" =>
            /\ Restarts_Game => g'.PlayerHealth = g'.PlayerMaxHealth
            /\ ~Restarts_Game =>
                  \/ g'.PlayerHealth = Healed
                  \/ \E i \in DOMAIN g'.monsters :
                        g'.PlayerHealth = Max(0, Healed - Dealt(g', g'.monsters[i].Damage))
            /\ g'.PlayerMaxHealth = g.PlayerMaxHealth]_vars

\* a chest has healed a player who was 10 short of the maximum, up to the maximum
C28_Witness ==
    /\ op = "Update" /\ pre.gameState = StatePlaying /\ in.e
    /\ pre.PlayerHealth = pre.PlayerMaxHealth - 10
    /\ g.PlayerHealth = g.PlayerMaxHealth
    /\ tm.Grid[GridRows - 2][0] = 0
    /\ g.monsters # <<>>

\* C29: an Update that runs updatePlaying starts with the player alive: after a
\* death no gameplay tick runs until restartGame has reset PlayerHealth
C29_NoPlayAfterDeath ==
    [][op' = "Update" /\ calls' # <<>> /\ calls'[1] = "updatePlaying"
          => g.PlayerHealth > 0]_vars

-----------------------------------------------------------------------------
(* Claims on the world generation *)

\* the height of the spawn column
SpawnHeight == gen.surfaceHeight[SpawnColumn]

AfterFlatten == {"fill", "lava", "caves", "islands", "features", "chamber", "done"}

\* the integer mean of the heights before the flattening over the spawn window
SpawnMean ==
    SumHeights(gen.preFlatten, 80, Min(140, gen.Cols - 1))
        \div (Min(140, gen.Cols - 1) - 80 + 1)

\* C7: from the spawn flattening on, through the chamber flattening and to the
\* end of the generation, every column of the spawn window 80 .. min(140, Cols-1)
\* has the integer mean of the window's heights before the flattening
C7_SpawnWindowFlat ==
    gen.stage \in AfterFlatten =>
        \E mean \in {SpawnMean} :
            \A x \in 80..Min(140, gen.Cols - 1) : gen.surfaceHeight[x] = mean

\* the generation has ended on a height field that was not flat over the spawn
\* window, and the chamber has flattened its own columns
C7_Witness ==
    /\ gen.stage = "done"
    /\ gen.preFlatten[100] # gen.preFlatten[120]
    /\ gen.surfaceHeight[100] = gen.surfaceHeight[120]
    /\ \E x \in 141..(gen.Cols - 1) : gen.surfaceHeight[x] # gen.preFlatten[x]

\* C8 as stated: in the generated world the tile of the spawn column at row
\* surfaceHeight+1 is non-solid
C8_SpawnTileNonSolid ==
    gen.stage = "done" => ~IsSolid(gen.column[SpawnHeight + 1])

\* C8 as the code has it: the block fill leaves, on the spawn column, a solid
\* surface block at row surfaceHeight, solid Dirt or Sand at row surfaceHeight+1
\* under it, and nothing in the rows above the surface
C8_SpawnTileAfterFill ==
    gen.stage = "lava" =>
        /\ gen.column[SpawnHeight + 1] \in {ID_Dirt, ID_Sand}
        /\ IsSolid(gen.column[SpawnHeight + 1])
        /\ IsSolid(gen.column[SpawnHeight])
        /\ \A r \in 0..(SpawnHeight - 1) : gen.column[r] = 0

\* the fill has run on a mountain column with the thinnest dirt layer: the row
\* under the surface is the only row of dirt
C8_Witness ==
    /\ gen.stage = "lava"
    /\ gen.column[SpawnHeight] = ID_Grass
    /\ gen.column[SpawnHeight + 1] = ID_Dirt
    /\ gen.column[SpawnHeight + 2] \in StoneTiles

\* C12: every grid index a cave worm, a cavern (with its spikes and its chest
\* pass), a tunnel, a sky island or the mountain chamber reads or writes lies
\* inside [0, Rows) x [0, Cols), for both world sizes
C12_CarveInGrid == gen.touched \subseteq GridIndices(gen.Cols, gen.Rows)

\* a cave worm has walked out of the grid on the left and its stamp still
\* reaches back into it
C12_Witness ==
    /\ gen.shape = "generateSmootherCave"
    /\ gen.at[1] < 0
    /\ gen.touched # {}

\* the rows of the lava band
LavaBand == (gen.Rows - LavaRows)..(gen.Rows - 1)

\* C19: when the generation returns, every cell of the lowest 8 rows holds
\* ID_Lava (here: every such cell of the spawn column)
C19_LavaBandKept ==
    gen.stage = "done" => \A y \in LavaBand : gen.column[y] = ID_Lava

\* the ground row of the column followed
GroundRow == gen.surfaceHeight[gen.at]

\* C20: placePathChests changes a path column only by a chest one row above the
\* ground row, in a cell that was empty, over a ground tile that IsSolid calls
\* solid; with the cell occupied or the ground tile not solid it changes nothing
C20_PathChestOnSolid ==
    [][op' = "placePathChests" =>
          /\ \A y \in DOMAIN gen.column :
                gen'.column[y] # gen.column[y] =>
                    /\ y = GroundRow - 1
                    /\ gen.column[y] = 0 /\ gen'.column[y] = ID_Chest
                    /\ IsSolid(gen.column[GroundRow])
          /\ (gen.column[GroundRow - 1] # 0 \/ ~IsSolid(gen.column[GroundRow]))
                => gen'.column = gen.column]_vars
-----------------------------------------------------------------------------
(* Claims about the sound table *)

\* the fields of the game a sound can change: none of them is read by the
\* physics, the combat or the screens
SoundFields == {"sounds", "bgMusicPlaying", "isRunningPlaying"}

Silent(s) == [f \in (DOMAIN s) \ SoundFields |-> s[f]]

\* C13: under every interleaving of the five loaders and the game loop, a loader
\* stores into the sounds table only while it holds soundMutex alone, so that no
\* two stores and no store and read of the game loop are pending together; and a
\* tick that finds entries missing leaves every field but the sound flags as a
\* tick with all five sounds loaded does
C13_SoundTable ==
    /\ [](/\ Cardinality({n \in AllSounds : mid.loader[n] = "store"}) <= 1
          /\ \A n \in AllSounds :
                mid.loader[n] = "store" => mid.writer = n /\ mid.loop # "read"
          /\ mid.loop = "read" => mid.writer = "none" /\ mid.readers = 1)
    /\ [][op' = "Update" =>
            /\ Silent(g') = Silent(Update([g EXCEPT !.sounds = AllSounds], tm, in').g)
            /\ tm' = tm]_vars

\* the game loop has made a tick to the right with the running sound missing,
\* and now the loader of the running sound holds the lock to store its player
\* while the game loop waits
C13_Witness ==
    /\ ticks = 1 /\ in.right
    /\ "running" \notin g.sounds /\ ~g.isRunningPlaying
    /\ mid.loader["running"] = "store"
    /\ mid.loop = "idle"
    /\ mid.loader["background"] = "done" /\ "background" \in mid.table
-----------------------------------------------------------------------------
(* Claims about the jump *)

\* the tick just made has executed a jump: the vertical speed after gravity is
\* JumpStrength + Gravity, which no rise and no fall passes through otherwise
JumpExecuted == mid'.vy = JumpStrength + Gravity

\* the tick about to begin is the n-th since the player left the ground without
\* a jump: the coyote timer, set to CoyoteFrames in the last tick that began on
\* the ground, has been decremented in each of the n - 1 airborne ticks so far
AirborneTick(n) == ~g.isGrounded /\ g.coyoteTimer = CoyoteFrames - (n - 1)

\* C14: a jump press in any of the CoyoteFrames ticks after the player left the
\* ground without jumping executes a jump, and a press in a later airborne tick
\* executes none
C14_CoyoteWindow ==
    [][op' = "updatePlayer" /\ in'.jump =>
          /\ (\E n \in 1..CoyoteFrames : AirborneTick(n)) => JumpExecuted
          /\ (~g.isGrounded /\ g.coyoteTimer = 0) => ~JumpExecuted]_vars

\* the tick just made has brought the player down onto the ground
JustLanded == op = "updatePlayer" /\ ~pre.isGrounded /\ g.isGrounded

\* the jump press still remembered when the tick begins was made n ticks ago:
\* the buffer timer, set to JumpBufferFrames by the press, has been decremented
\* in each of the n - 1 ticks since
PressedAgo(n) == g.jumpBufferTimer = JumpBufferFrames - (n - 1)

\* C15: a jump press made in the air after the coyote window is remembered for
\* JumpBufferFrames ticks, the tick of the press included: when the player has
\* landed in one of them, the next tick executes the jump with no new press, and
\* when it has landed with no press remembered, the next tick executes none
C15_JumpBuffer ==
    [][op' = "updatePlayer" /\ ~in'.jump /\ JustLanded =>
          /\ (\E n \in 1..JumpBufferFrames : PressedAgo(n)) => JumpExecuted
          /\ g.jumpBufferTimer = 0 => ~JumpExecuted]_vars

\* the same tick with the Space key still down instead of released
HeldTick == updatePlayer(g, [NoKeys EXCEPT !.held = TRUE], tm, FALSE)

\* C16: a tick in which the jump key is released while the player rises ends
\* with an upward speed strictly below the one the same tick ends with when the
\* key stays down
C16_JumpCut ==
    [][op' = "updatePlayer" /\ in'.jumpRel /\ g.vy < 0 /\ g'.vy < 0 =>
          Abs(g'.vy) < Abs(HeldTick.vy)]_vars

\* C18: after every player tick the player is inside the map: the centre of the
\* hitbox at least half a hitbox from the left and the right edge, the feet
\* between the top and the bottom edge
C18_InsideMap ==
    op = "updatePlayer" =>
        /\ g.x >= (PlayerHitboxW \div 2) * FP
        /\ g.x <= tm.Cols * TileSize * FP - (PlayerHitboxW \div 2) * FP
        /\ g.y >= 0
        /\ g.y <= tm.Rows * TileSize * FP

\* C27: a jump is executed only by a player who has ended a tick grounded since
\* the jump before; the tick of a jump ends with the coyote and jump-buffer
\* timers at 0, and the coyote timer leaves 0 only in a tick that starts
\* grounded, a touch in mid-air changing neither
C27_NoDoubleJump ==
    [][/\ (op' = "updatePlayer" /\ JumpExecuted) =>
              /\ ret = 1
              /\ g'.coyoteTimer = 0 /\ g'.jumpBufferTimer = 0
              /\ ~g'.isGrounded
       /\ (g.coyoteTimer = 0 /\ g'.coyoteTimer > 0) =>
              op' = "updatePlayer" /\ g.isGrounded
       /\ op' = "PlayerTakeDamage" =>
              /\ g'.coyoteTimer = g.coyoteTimer
              /\ g'.jumpBufferTimer = g.jumpBufferTimer
              /\ g'.isGrounded = g.isGrounded]_vars

\* the second jump of a player who was touched in mid-air during the first and
\* has landed since
C27_Witness ==
    /\ op = "updatePlayer" /\ mid.vy = JumpStrength + Gravity
    /\ arg = <<2, TRUE>>
    /\ pre.isGrounded /\ ~g.isGrounded

-----------------------------------------------------------------------------
(* Claims about the action locks *)

\* the action locks that are set
LocksSet(s) ==
    {l \in {"isAttacking", "isProtecting", "isDialogue"} : s[l]}

\* C22: in every reachable state at most one of isAttacking, isProtecting and
\* isDialogue is true, whatever keys are pressed, several action keys in one
\* tick included
C22_LocksExclusive == Cardinality(LocksSet(g)) <= 1

-----------------------------------------------------------------------------
(* Claims about the slime's knockback and hops *)

Slime == g.monsters[1]

\* the slime stands against a wall on the side it moves to
AtWall(m, vx) ==
    \E d \in {monsterCollisionsX([m EXCEPT !.X = @ + vx, !.VX = vx], tm)} : d.VX = 0

\* Monster.Update calls a knockback of speed k lasts
RECURSIVE KnockbackTicks(_)
KnockbackTicks(k) ==
    IF k = 0 THEN 0
    ELSE 1 + KnockbackTicks(monsterKnockback([KnockbackVX |-> k, VX |-> 0]).KnockbackVX)

\* C23: while KnockbackVX is not zero an Update moves the slime with VX =
\* KnockbackVX (a wall in the way stops it, as it stops every move) and runs no
\* AI (no hop starts, JumpTimer and State stay); KnockbackVX is multiplied by 0.9 and is 0 once below 0.5; the
\* knockback of a hit is over after a bounded number of updates, and the AI runs
\* again in the updates after that
C23_KnockbackOverride ==
    /\ [](Slime.KnockbackVX # 0 => ret < KnockbackTicks(AttackKnockback))
    /\ [][op' = "Monster.Update" =>
            /\ Slime.KnockbackVX # 0 =>
                  /\ Slime'.VX = Slime.KnockbackVX \/ (Slime'.VX = 0 /\ AtWall(Slime, Slime.KnockbackVX))
                  /\ Slime'.JumpTimer = Slime.JumpTimer
                  /\ Slime'.State = Slime.State
                  /\ Slime'.KnockbackVX = TruncDiv(Slime.KnockbackVX * 9, 10)
                        \/ /\ Abs(TruncDiv(Slime.KnockbackVX * 9, 10)) < FP \div 2
                           /\ Slime'.KnockbackVX = 0
                  /\ Abs(TruncDiv(Slime.KnockbackVX * 9, 10)) < FP \div 2
                        => Slime'.KnockbackVX = 0
            /\ (Slime.KnockbackVX = 0 /\ Slime.State = MStateIdle)
                  => Slime'.JumpTimer # Slime.JumpTimer]_vars

\* the update in which the knockback of a hit ends, the last the bound allows,
\* for a slime that was hit in the middle of a hop
C23_Witness ==
    /\ op = "Monster.Update" /\ arg # <<>>
    /\ ret = KnockbackTicks(AttackKnockback)
    /\ pre.monsters[1].KnockbackVX # 0 /\ Slime.KnockbackVX = 0
    /\ Slime.State = MStateJump

\* the player is within the detection range of slime m
Detects(m, s) ==
    DistLess((s.x + (s.frameWidth * FP) \div 2) - (m.X + (m.FrameWidth * FP) \div 2),
             (s.y + (s.frameHeight * FP) \div 2) - (m.Y + (m.FrameHeight * FP) \div 2), 500)

\* the player is to the right of slime m
PlayerRightOf(m, s) ==
    (s.x + (s.frameWidth * FP) \div 2) - (m.X + (m.FrameWidth * FP) \div 2) > 0

\* slime m rests on a solid tile
OnFloor(m) ==
    \/ SolidAt(tm, MonsterLeft(m), TileOf(m.Y + m.FrameHeight * FP))
    \/ SolidAt(tm, MonsterRight(m), TileOf(m.Y + m.FrameHeight * FP))

\* C24: a hop (State Idle -> Jump, upward speed JumpStrength, VX = +-Speed toward
\* the player) starts only in an update where the slime is idle, not in
\* knockback, its jump cooldown has passed 60 and the player is nearer than 500;
\* the cooldown is 0 after the hop starts; the slime is idle again only on floor
\* contact; State is always Idle or Jump
C24_HopCycle ==
    /\ [](Slime.State \in {MStateIdle, MStateJump})
    /\ [][op' = "Monster.Update" =>
            /\ Slime'.State = MStateJump /\ Slime.State # MStateJump =>
                  /\ Slime.State = MStateIdle
                  /\ Slime.KnockbackVX = 0
                  /\ Slime.JumpTimer + 1 > 60
                  /\ Detects(Slime, g)
                  /\ Slime'.JumpTimer = 0
                  /\ Slime'.VY = Slime.JumpStrength + MonsterGravity
                  /\ Slime'.VX = IF PlayerRightOf(Slime, g) THEN Slime.Speed ELSE -Slime.Speed
            /\ Slime'.State = MStateIdle /\ Slime.State # MStateIdle =>
                  /\ Slime.State = MStateJump
                  /\ Slime'.VY = 0 /\ OnFloor(Slime')]_vars

\* a slime that hopped is idle again on the floor
C24_Witness ==
    /\ op = "Monster.Update"
    /\ pre.monsters[1].State = MStateJump /\ Slime.State = MStateIdle
    /\ Slime.JumpTimer = 0 /\ OnFloor(Slime)

-----------------------------------------------------------------------------
(* Claims about the worlds of a run *)

\* the passes of GenerateTerrariaWorld that carve caves, caverns and tunnels
CarvePasses == {"caves"}

\* the anchor generateMountainChamber computes for the world generated
AnchorX == (ChamberStart(gen.Cols) + ChamberWidth \div 2) * TileSize * FP
AnchorY == (gen.surfaceHeight[ChamberStart(gen.Cols)] - 2) * TileSize * FP

\* C21: in every generation, the first and that of a restart, the mountain
\* chamber is made after the cave carving, no later pass turns a cell of the
\* chamber column into air, MountainChamberX/Y are assigned exactly once, and
\* the slimes are created after that, from the anchor of the world just made
C21_ChamberOrder ==
    /\ [](/\ gen.assigned <= 1
          /\ gen.stage \in {"done", "spawned"} => gen.assigned = 1)
    /\ [][/\ op' \in CarvePasses => gen.assigned = 0
          /\ op' = "chamber" => gen.assigned = 0 /\ op \in {"features"}
          /\ (gen.assigned = 1 /\ gen'.assigned = 1) =>
                \A y \in DOMAIN gen.column : gen'.column[y] = 0 => gen.column[y] = 0
          /\ op' = "spawn" =>
                /\ gen.assigned = 1
                /\ \A i \in 1..7 :
                      /\ g'.monsters[i].X = AnchorX + (i - 4) * 80 * FP
                      /\ g'.monsters[i].Y = AnchorY]_vars

\* the slimes of the second world are in place, and its anchor is not that of
\* the first; under the chamber floor followed a cave had been carved, which the
\* chamber filled
C21_Witness ==
    /\ op = "spawn" /\ ticks = 1
    /\ Len(g.monsters) = 7 /\ Len(pre.monsters) = 7
    /\ g.monsters[1].Y # pre.monsters[1].Y
    /\ g.monsters[1].Y = AnchorY
    /\ \A y \in (gen.surfaceHeight[gen.at] + 1)..(gen.Rows - CarveMargin - 1) :
          gen.column[y] = ID_Stone

-----------------------------------------------------------------------------
(* Claims about one swing of the sword *)

\* C26: between the moment isAttacking is set and the moment it is cleared the
\* health of a monster goes down at most once, whatever game-state transitions
\* lie between (pause, quit to menu and start again, a dialogue that becomes
\* active while the attack animation is on its hit frame)
C26_OneHitPerSwing == g.isAttacking => ret <= 1

-----------------------------------------------------------------------------
(* Claims about the lock protocol *)

\* a goroutine has something left to do
Unfinished ==
    \/ mid.inCall
    \/ \E n \in AllSounds : mid.loader[n] # "done"

\* a goroutine can take its next step
CanStep ==
    \/ mid.inCall /\ (mid.prog = <<>> \/ Head(mid.prog)[1] = "RUnlock" \/ CanRLock(mid))
    \/ \E n \in AllSounds :
          \/ mid.loader[n] \in {"store", "unlock"}
          \/ mid.loader[n] = "load" /\ CanAnnounce(mid)
          \/ mid.loader[n] = "wait" /\ ReadersGone(mid)

\* C30: the game loop is never at an RLock while it holds the read lock, holds
\* no read lock when Update returns or between calls, a loader that holds the
\* write lock makes one store and unlocks, and nobody waits for ever: while a
\* goroutine has work left one of them can step, every Update call returns and
\* every loader ends
C30_NoDeadlock ==
    /\ [](/\ mid.prog # <<>> /\ Head(mid.prog)[1] = "RLock" => mid.readers = 0
          /\ mid.prog = <<>> => mid.readers = 0
          /\ mid.readers \in {0, 1}
          /\ mid.readers = 1 => mid.inCall /\ mid.writer \notin {n \in AllSounds :
                                                  mid.loader[n] \in {"store", "unlock"}}
          /\ Unfinished => CanStep)
    /\ [][/\ mid'.table # mid.table =>
                \E n \in AllSounds :
                   /\ mid.writer = n /\ mid.loader[n] = "store" /\ mid'.loader[n] = "unlock"
                   /\ mid'.table = mid.table \cup {n}
          /\ \A n \in AllSounds :
                mid.loader[n] = "unlock" /\ mid'.loader[n] # "unlock"
                   => mid'.loader[n] = "done" /\ mid'.writer = "none"]_vars
    /\ (mid.inCall ~> ~mid.inCall)
    /\ <>(\A n \in AllSounds : mid.loader[n] = "done")

\* the loader of the chest sound is in Lock() waiting for the game loop, which
\* holds the read lock in the first of the two sections of the big chest
\* interaction and has the second still to enter
C30_Witness ==
    /\ mid.loader["chest"] = "wait" /\ mid.writer = "chest"
    /\ mid.readers = 1
    /\ Len(mid.prog) >= 3
    /\ mid.prog[1] = <<"RUnlock", "pauseBackgroundMusic">>
    /\ mid.prog[2] = <<"RLock", "updatePlaying">>

====
